---- MODULE Spec2Model ----
(***************************************************************************)
(* Bearer-token verification middleware of micro-stakes-api                *)
(* (internal/shared/middleware): header gate, JWT parsing and key lookup   *)
(* against the issuer's JWKS endpoint, signature and registered-claim      *)
(* validation, resolution of the token subject to a local user, and the    *)
(* hand-over to the downstream handler.                                    *)
(*                                                                         *)
(* A behaviour follows one request from arrival to its exit (the           *)
(* middleware keeps nothing from one request to the next); each action is  *)
(* one step of AuthMiddleware between two points where the outside world   *)
(* is consulted (the request, the JWKS endpoint, the clock, the store).    *)
(***************************************************************************)
EXTENDS Integers, Sequences, FiniteSets, TLC

\* ------------------------------------------------------------------ bounds
\* Largest number of entries of a JWKS document the issuer serves.
MaxKeys == 2
\* Largest value the clock can show when it is read (token times are 2, 3).
MaxNow == 3

\* ------------------------------------------------------- values of the data
\* A JSON value of a header field or of a claim: absent, a string, or a
\* value of another JSON type (a number).
Absent == [t |-> "absent", v |-> <<>>]
Num    == [t |-> "num",    v |-> <<>>]
Str(s) == [t |-> "str",    v |-> s]

\* An absent time claim.
NoTime == 0 - 1

\* Key identifiers (as sequences of characters) and RSA key pairs.
KidEmpty == <<>>
KidK1    == <<"k","1">>
Kids     == {KidEmpty, KidK1}
KeyPairs == {"A", "B"}
\* what "n"/"e" of a JWKS entry hold: the public key of a pair, or text that
\* is not unpadded base64url
BadB64   == "!!"

\* Subjects carried by tokens, as sequences of characters.
SubU1 == <<"u","1">>
SubU2 == <<"u","2">>
SubU3 == <<"u","3">>
Subs  == {SubU1, SubU2, SubU3}

\* Signing algorithms a token header may declare.
Algs == {"RS256", "PS256", "HS256", "XX"}

\* A compact token whose three segments decode: header (alg, kid), the key
\* pair that produced the signature, and the payload claims.
Tokens ==
  [alg : Algs, kid : {Absent, Num} \cup {Str(k) : k \in Kids},
   signer : KeyPairs,
   exp : {NoTime, 2, 3}, nbf : {NoTime, 2},
   sub : {Absent, Num} \cup {Str(s) : s \in Subs}]

NoToken ==
  [alg |-> "", kid |-> Absent, signer |-> "", exp |-> NoTime, nbf |-> NoTime,
   sub |-> Absent]

\* ------------------------------------------------- Authorization header text
\* The header is a sequence of pieces: a space, a word without spaces, a
\* compact token, or opaque text without spaces that is not a token.
Sp      == [kind |-> "sp",   w |-> " ",  tok |-> NoToken]
Word(w) == [kind |-> "word", w |-> w,    tok |-> NoToken]
Jwt(t)  == [kind |-> "jwt",  w |-> "",   tok |-> t]
Bearer  == Word("Bearer")

Raw     == [kind |-> "raw",  w |-> "invalid.token.here", tok |-> NoToken]

\* A token that passes every check at time 1 against a key set holding A
\* under k1.
GoodToken ==
  [alg |-> "RS256", kid |-> Str(KidK1), signer |-> "A", exp |-> 3,
   nbf |-> NoTime, sub |-> Str(SubU1)]

SampleCreds == {Jwt(GoodToken), Raw}

\* The Authorization headers a client may send: none, "Bearer <token>" for
\* every token, and the ill-formed shapes around sample credentials.
Headers ==
  {<<>>, <<Bearer>>, <<Bearer, Sp>>}
    \cup {<<Bearer, Sp, Jwt(t)>> : t \in Tokens}
    \cup UNION {{<<Bearer, Sp, c>>, <<Word("Token"), Sp, c>>,
                 <<Word("bearer"), Sp, c>>, <<Bearer, Sp, c, Sp, c>>,
                 <<Bearer, Sp, Sp, c>>, <<Sp, Bearer, Sp, c>>,
                 <<Bearer, c>>, <<c>>} : c \in SampleCreds}

\* Split as strings.Fields would do it: runs of spaces are one separator and
\* no empty piece is produced.
RECURSIVE Split_Fields(_)
Split_Fields(s) ==
  IF s = <<>> THEN <<>>
  ELSE LET rest == Split_Fields(Tail(s))
       IN IF Head(s).kind = "sp" THEN rest
          ELSE IF Len(s) > 1 /\ s[2].kind # "sp"
               THEN << <<Head(s)>> \o Head(rest) >> \o Tail(rest)
               ELSE << <<Head(s)>> >> \o rest

\* strings.Split(s, " "): the pieces between single spaces, empty pieces kept.
RECURSIVE Split(_)
Split(s) ==
  IF s = <<>> THEN << <<>> >>
  ELSE LET rest == Split(Tail(s))
       IN IF Head(s).kind = "sp"
          THEN << <<>> >> \o rest
          ELSE << <<Head(s)>> \o Head(rest) >> \o Tail(rest)

\* --------------------------------------------------------------- key material
\* base64.RawURLEncoding.DecodeString followed by big.Int.SetBytes: the
\* number the text encodes, or an error (-1) for text outside the alphabet.
B64Error == 0 - 1
B64Decode(s) ==
  CASE s = "nA"   -> 3233
    [] s = "nB"   -> 2773
    [] s = "AQAB" -> 65537
    [] OTHER      -> B64Error

\* The public key of a key pair.
ModulusText(pair) == IF pair = "A" THEN "nA" ELSE "nB"
PublicKeyOf(pair) ==
  [N |-> B64Decode(ModulusText(pair)), E |-> 65537]
NoKey == [N |-> 0, E |-> 0]

\* Entries of a JWKS document (kid, n, e; kty, alg and use are never read).
\* A missing "kid" decodes to the empty string.
JWKs ==
  {[kid |-> KidK1,    n |-> "nA",   e |-> "AQAB"],
   [kid |-> KidK1,    n |-> "nB",   e |-> "AQAB"],
   [kid |-> KidEmpty, n |-> "nA",   e |-> "AQAB"],
   [kid |-> KidK1,    n |-> BadB64, e |-> "AQAB"],
   [kid |-> KidK1,    n |-> "nA",   e |-> BadB64]}

RECURSIVE SeqsUpTo(_, _)
SeqsUpTo(S, n) ==
  IF n = 0 THEN {<<>>}
  ELSE LET shorter == SeqsUpTo(S, n - 1)
       IN shorter \cup {Append(q, x) : q \in shorter, x \in S}

\* What the GET of the key-set endpoint can produce: a transport failure, a
\* body that is not JSON, or a key set.
FetchOutcomes ==
  {[kind |-> "neterr", keys |-> <<>>], [kind |-> "badjson", keys |-> <<>>]}
    \cup {[kind |-> "ok", keys |-> ks] : ks \in SeqsUpTo(JWKs, MaxKeys)}
NoFetch == [kind |-> "none", keys |-> <<>>]

\* ------------------------------------------------------- the token library
\* jwt.Parser.ParseUnverified: the credential must be one compact token whose
\* segments decode, and its alg must name a registered signing method.
RegisteredAlgs == {"RS256", "RS384", "RS512", "PS256", "HS256", "none"}
ParseUnverified(cred) ==
  IF Len(cred) = 1 /\ cred[1].kind = "jwt"
  THEN IF cred[1].tok.alg \in RegisteredAlgs
       THEN [err |-> "", tok |-> cred[1].tok]
       ELSE [err |-> "unverifiable", tok |-> cred[1].tok]
  ELSE [err |-> "malformed", tok |-> NoToken]

\* The method check left out: every registered method passes.
IsSigningMethodRSA_NoCheck(alg) == alg \in RegisteredAlgs

\* token.Method.(*jwt.SigningMethodRSA): true of RS256, RS384 and RS512 only
\* (PS256 is a *SigningMethodRSAPSS).
IsSigningMethodRSA(alg) == alg \in {"RS256", "RS384", "RS512"}

\* SigningMethodRSA.Verify: the signature must have been made by the private
\* key whose public half is the given key.
SignatureVerifies(tok, pub) == pub = PublicKeyOf(tok.signer)

\* The expiry comparison left out.
ExpiredAt_Never(tok, t) == FALSE

\* The validation requiring an exp claim.
ExpiredAt_ExpRequired(tok, t) == tok.exp = NoTime \/ ~(t < tok.exp)

\* Validator.Validate on MapClaims with default options: exp, when present,
\* must be after now; nbf, when present, must not be after now.
ExpiredAt(tok, t)     == tok.exp # NoTime /\ ~(t < tok.exp)
NotYetValidAt(tok, t) == tok.nbf # NoTime /\ t < tok.nbf
ValidateClaims(tok, t) ==
  IF ExpiredAt(tok, t) THEN "expired"
  ELSE IF NotYetValidAt(tok, t) THEN "notyet"
  ELSE ""

\* The claims of a token as the library hands them over (jwt.MapClaims).
ClaimsOf(tok) == [sub |-> tok.sub, exp |-> tok.exp, nbf |-> tok.nbf]
NoClaims == [sub |-> Absent, exp |-> NoTime, nbf |-> NoTime]

\* ------------------------------------------------------------ fetchPublicKey
\* The exponent's decoding error dropped: the key gets the exponent of no
\* bytes.
parseRSAPublicKey_ExponentUnchecked(jwk) ==
  IF B64Decode(jwk.n) = B64Error THEN [err |-> "decode-n", key |-> NoKey]
  ELSE [err |-> "",
        key |-> [N |-> B64Decode(jwk.n),
                 E |-> IF B64Decode(jwk.e) = B64Error THEN 0
                       ELSE B64Decode(jwk.e)]]

\* parseRSAPublicKey: the modulus, then the exponent, are decoded; either
\* failure is returned as an error, otherwise the key is built.
parseRSAPublicKey(jwk) ==
  IF B64Decode(jwk.n) = B64Error THEN [err |-> "decode-n", key |-> NoKey]
  ELSE IF B64Decode(jwk.e) = B64Error THEN [err |-> "decode-e", key |-> NoKey]
  ELSE [err |-> "", key |-> [N |-> B64Decode(jwk.n), E |-> B64Decode(jwk.e)]]

\* The scan keeping the last entry with the kid instead of returning at the
\* first.
RECURSIVE FirstWithKid_Last(_, _, _)
FirstWithKid_Last(keys, kid, i) ==
  IF i > Len(keys) THEN 0
  ELSE LET later == FirstWithKid_Last(keys, kid, i + 1)
       IN IF later # 0 THEN later
          ELSE IF keys[i].kid = kid THEN i ELSE 0

\* The scan taking an empty kid for any entry's.
RECURSIVE FirstWithKid_EmptyMatchesAny(_, _, _)
FirstWithKid_EmptyMatchesAny(keys, kid, i) ==
  IF i > Len(keys) THEN 0
  ELSE IF keys[i].kid = kid \/ kid = <<>> THEN i
  ELSE FirstWithKid_EmptyMatchesAny(keys, kid, i + 1)

\* The first entry of the key set whose kid equals the given one (0: none).
RECURSIVE FirstWithKid(_, _, _)
FirstWithKid(keys, kid, i) ==
  IF i > Len(keys) THEN 0
  ELSE IF keys[i].kid = kid THEN i
  ELSE FirstWithKid(keys, kid, i + 1)

\* fetchPublicKey with the result of the kid type assertion ignored: a kid
\* that is no string reads as the empty string.
fetchPublicKey_KidUnchecked(tok, out) ==
  IF out.kind = "neterr" THEN [err |-> "fetch-failed", key |-> NoKey]
  ELSE IF out.kind = "badjson" THEN [err |-> "decode-failed", key |-> NoKey]
  ELSE LET kid == IF tok.kid.t = "str" THEN tok.kid.v ELSE KidEmpty
           i == FirstWithKid(out.keys, kid, 1)
       IN IF i = 0 THEN [err |-> "key-not-found", key |-> NoKey]
          ELSE parseRSAPublicKey(out.keys[i])

\* fetchPublicKey falling back to the first key of the set when no entry has
\* the token's kid.
fetchPublicKey_FirstKeyFallback(tok, out) ==
  IF out.kind = "neterr" THEN [err |-> "fetch-failed", key |-> NoKey]
  ELSE IF out.kind = "badjson" THEN [err |-> "decode-failed", key |-> NoKey]
  ELSE IF tok.kid.t # "str" THEN [err |-> "kid-missing", key |-> NoKey]
  ELSE LET i == FirstWithKid(out.keys, tok.kid.v, 1)
       IN IF i # 0 THEN parseRSAPublicKey(out.keys[i])
          ELSE IF Len(out.keys) > 0 THEN parseRSAPublicKey(out.keys[1])
          ELSE [err |-> "key-not-found", key |-> NoKey]

\* fetchPublicKey(cfg, token) for the outcome of its GET.
fetchPublicKey(tok, out) ==
  IF out.kind = "neterr" THEN [err |-> "fetch-failed", key |-> NoKey]
  ELSE IF out.kind = "badjson" THEN [err |-> "decode-failed", key |-> NoKey]
  ELSE IF tok.kid.t # "str" THEN [err |-> "kid-missing", key |-> NoKey]
  ELSE LET i == FirstWithKid(out.keys, tok.kid.v, 1)
       IN IF i = 0 THEN [err |-> "key-not-found", key |-> NoKey]
          ELSE parseRSAPublicKey(out.keys[i])

\* ------------------------------------------------------------ the user store
EmailA == <<"a","@","x">>
EmailB == <<"b","@","x">>
EmailC == <<"c","@","x">>
\* Rows of table users: two users of the keycloak adapter and one whose
\* identity belongs to another adapter.
UserRows ==
  {[ID |-> 42, Email |-> EmailA, IdentityID |-> SubU1, IdentityAdapter |-> "keycloak"],
   [ID |-> 7,  Email |-> EmailB, IdentityID |-> SubU2, IdentityAdapter |-> "keycloak"],
   [ID |-> 9,  Email |-> EmailC, IdentityID |-> SubU3, IdentityAdapter |-> "other"]}
NoUser == [ID |-> 0, Email |-> <<>>, IdentityID |-> <<>>, IdentityAdapter |-> ""]
IdentityAdapterKeycloak == "keycloak"

\* FindByIdentityID with the adapter left out of the WHERE clause.
FindByIdentityID_AnyAdapter(rows, identityID, adapter, dbOk) ==
  LET match == {u \in rows : u.IdentityID = identityID}
  IN IF ~dbOk THEN [err |-> "database", user |-> NoUser]
     ELSE IF match = {} THEN [err |-> "not-found", user |-> NoUser]
     ELSE [err |-> "",
           user |-> CHOOSE u \in match : \A o \in match : u.ID <= o.ID]

\* The lookup wrapping gorm.ErrRecordNotFound like any other error.
FindByIdentityID_NotFoundAsDbError(rows, identityID, adapter, dbOk) ==
  LET match == {u \in rows : u.IdentityID = identityID
                             /\ u.IdentityAdapter = adapter}
  IN IF ~dbOk \/ match = {} THEN [err |-> "database", user |-> NoUser]
     ELSE [err |-> "",
           user |-> CHOOSE u \in match : \A o \in match : u.ID <= o.ID]

\* The lookup reporting every error of the query as ErrUserNotFound.
FindByIdentityID_AllErrorsNotFound(rows, identityID, adapter, dbOk) ==
  LET match == {u \in rows : u.IdentityID = identityID
                             /\ u.IdentityAdapter = adapter}
  IN IF ~dbOk \/ match = {} THEN [err |-> "not-found", user |-> NoUser]
     ELSE [err |-> "",
           user |-> CHOOSE u \in match : \A o \in match : u.ID <= o.ID]

\* postgresUserRepository.FindByIdentityID: the first row (by primary key)
\* with that identity and adapter, ErrUserNotFound when there is none, a
\* wrapped ErrDatabaseError when the query fails.
FindByIdentityID(rows, identityID, adapter, dbOk) ==
  LET match == {u \in rows : u.IdentityID = identityID
                             /\ u.IdentityAdapter = adapter}
  IN IF ~dbOk THEN [err |-> "database", user |-> NoUser]
     ELSE IF match = {} THEN [err |-> "not-found", user |-> NoUser]
     ELSE [err |-> "",
           user |-> CHOOSE u \in match : \A o \in match : u.ID <= o.ID]

\* The lookup deleting the row it found.
RowsAfterFind_Consuming(rows, identityID) ==
  {u \in rows : u.IdentityID # identityID}

\* The rows of the table after FindByIdentityID: the query is a SELECT, the
\* table is as it was.
RowsAfterFind(rows, identityID) == rows

\* The decimal text of a number (strconv.FormatUint(n, 10)).
DigitChar(d) ==
  CASE d = 0 -> "0" [] d = 1 -> "1" [] d = 2 -> "2" [] d = 3 -> "3"
    [] d = 4 -> "4" [] d = 5 -> "5" [] d = 6 -> "6" [] d = 7 -> "7"
    [] d = 8 -> "8" [] d = 9 -> "9"
RECURSIVE FormatUint(_)
FormatUint(n) ==
  IF n < 10 THEN <<DigitChar(n)>>
  ELSE Append(FormatUint(n \div 10), DigitChar(n % 10))

\* ------------------------------------------------------------ bankroll data
\* The callers of the bankroll service and repository that run at once.
Callers == {"p", "q"}

\* Users, names and the other columns a caller may send.
BankrollUsers == {1, 2}
BankrollInputs ==
  {[Name |-> "a", Currency |-> "BRL", StartDate |-> 1,
    CommissionPercentage |-> 5, InitialBalance |-> 10],
   [Name |-> "b", Currency |-> "USD", StartDate |-> 2,
    CommissionPercentage |-> 0, InitialBalance |-> 25]}

\* A row of table bankrolls (the timestamps are left out).
BankrollRow(id, userID, in, initial, current) ==
  [ID |-> id, UserID |-> userID, Name |-> in.Name, Currency |-> in.Currency,
   InitialBalance |-> initial, CurrentBalance |-> current,
   StartDate |-> in.StartDate,
   CommissionPercentage |-> in.CommissionPercentage]
NoBankroll ==
  [ID |-> 0, UserID |-> 0, Name |-> "", Currency |-> "",
   InitialBalance |-> 0, CurrentBalance |-> 0, StartDate |-> 0,
   CommissionPercentage |-> 0]

\* The table when the callers begin: a bankroll of user 1 and one of user 2,
\* created earlier.
SeedBankrolls ==
  {[ID |-> 1, UserID |-> 1, Name |-> "a", Currency |-> "BRL",
    InitialBalance |-> 10, CurrentBalance |-> 10, StartDate |-> 1,
    CommissionPercentage |-> 5],
   [ID |-> 2, UserID |-> 2, Name |-> "b", Currency |-> "USD",
    InitialBalance |-> 25, CurrentBalance |-> 25, StartDate |-> 2,
    CommissionPercentage |-> 0]}

\* A caller between two calls.
NoCall ==
  [svc |-> "", stage |-> 0, op |-> "", pc |-> "idle", arg |-> NoBankroll,
   err |-> "", detail |-> "", out |-> {}, svcErr |-> "",
   svcOut |-> NoBankroll]

\* -------------------------------------------------------- registration data
EmailD == <<"d","@","x">>
\* The emails of the registrations tried: one of a stored user, one new.
RegisterEmails == {EmailA, EmailD}
\* token.ExpiresIn of the admin logins, in seconds.
AdminExpiresIn == 60
\* The adapter as NewKeycloakAdapter leaves it at time 0: the token of the
\* constructor's admin login and its expiry. A token is named after the
\* caller whose latest login returned it; expiresOf records the login
\* whose ExpiresIn the stored expiry was computed from.
NewKeycloakAdapter ==
  [adminToken |-> "new", tokenExpires |-> AdminExpiresIn,
   expiresOf |-> "new"]
\* A caller of Register that is not in a call.
NoRegister ==
  [pc |-> "idle", email |-> <<>>, attempts |-> 0, began |-> 0, token |-> "",
   userID |-> <<>>, idpErr |-> "", err |-> "", out |-> 0]

\* ------------------------------------------------------------ user ids
\* A uint past the range of TLC's integers is written in two
\* parts, hi * LimbBase + lo.
LimbBase == 100000000
Uint(hi, lo) == [hi |-> hi, lo |-> lo]
\* The ids of the users whose requests reach the bankroll handlers (the
\* users table's id is BIGSERIAL, User.ID a uint): small ones and ones
\* around 2^32 = 4294967296.
UserIDSamples ==
  {Uint(h, l) : h \in {0, 1, 41, 42, 43, 99},
                l \in {1, 7, 42, 100, 10000000, 94967295, 94967296,
                       94967297, 99999999}}
\* No request past the middleware yet.
NoEntry ==
  [pc |-> "idle", user |-> Uint(0, 0), ctx |-> [userID |-> Absent], err |-> "",
   id |-> Uint(0, 0), status |-> 0]

\* ------------------------------------------------------------------- state
VARIABLES
  entry,         \* the request that enters a bankroll handler
  clock,         \* time.Now() of the identity adapter, in seconds
  kc,            \* the KeycloakAdapter shared by all calls
  realm,         \* the usernames of the Keycloak realm's users
  regs,          \* what each caller of Register is doing
  regStarted,    \* calls of Register started so far
  bankrolls,     \* rows of table bankrolls
  seq,           \* last value of the table's id sequence
  calls,         \* what each caller of the bankroll code is doing
  started,       \* calls of the bankroll code started so far
  now,           \* the time the claims were validated at (0: not yet)
  users,         \* rows of table users
  pc,            \* where AuthMiddleware stands for this request
  header,        \* the request's Authorization header
  tokenString,   \* parts[1]
  token,         \* the token as parsed (unverified)
  verr,          \* the error jwt.Parse returns ("" for none)
  jwks,          \* what this request's GET of the key set produced
  key,           \* the public key the keyfunc returned
  valid,         \* token.Valid
  claims,        \* token.Claims once the token is valid
  user,          \* the record the user store returned
  response,      \* the JSON error response written, status 0 for none
  aborted,       \* c.Abort() was called
  ctx,           \* request-scoped values under "userID" and "email"
  handlerRuns,   \* how many times the downstream handler ran
  stages,        \* the verification stages run, in order
  fetches,       \* GETs of the key-set endpoint issued for this request
  resolverCalls, \* calls of the user-resolution collaborator
  storeUp,       \* the user store answered this request's query
  gets,          \* GETs the key-set endpoint received from all requests
  parked         \* the locals of the request that is not running

vars == <<now, users, pc, header, tokenString, token, verr, jwks, key,
          valid, claims, user, response, aborted, ctx, handlerRuns, stages,
          fetches, resolverCalls, storeUp, gets, parked,
          bankrolls, seq, calls, started,
          clock, kc, realm, regs, regStarted, entry>>

\* The variables of the middleware's requests, and those of the code behind
\* it.
authVars == <<now, users, pc, header, tokenString, token, verr, jwks, key,
              valid, claims, user, response, aborted, ctx, handlerRuns,
              stages, fetches, resolverCalls, storeUp, gets, parked>>
requestVars == <<now, pc, header, tokenString, token, verr, jwks, key,
                 valid, claims, user, response, aborted, ctx, handlerRuns,
                 stages, fetches, resolverCalls, storeUp, gets, parked>>
bankVars == <<bankrolls, seq, calls, started>>
regVars == <<clock, kc, realm, regs, regStarted>>
outsideVars == <<bankVars, regVars, entry>>

envVars   == <<now, users, gets, parked, outsideVars>>
parseVars == <<tokenString, token, verr, jwks, key, valid, claims>>
exitVars  == <<user, response, aborted, ctx, handlerRuns, resolverCalls,
               storeUp>>

NoResponse == [status |-> 0, code |-> "", error |-> ""]
NoCtx      == [userID |-> Absent, email |-> Absent]

\* The locals of the handler closure for one request, and their values when
\* the closure is entered.
Locals ==
  [now |-> now, pc |-> pc, header |-> header, tokenString |-> tokenString,
   token |-> token, verr |-> verr, jwks |-> jwks, key |-> key,
   valid |-> valid, claims |-> claims, user |-> user,
   response |-> response, aborted |-> aborted, ctx |-> ctx,
   handlerRuns |-> handlerRuns, stages |-> stages, fetches |-> fetches,
   resolverCalls |-> resolverCalls, storeUp |-> storeUp]
Fresh ==
  [now |-> 0, pc |-> "idle", header |-> <<>>, tokenString |-> <<>>,
   token |-> NoToken, verr |-> "", jwks |-> NoFetch, key |-> NoKey,
   valid |-> FALSE, claims |-> NoClaims, user |-> NoUser,
   response |-> NoResponse, aborted |-> FALSE, ctx |-> NoCtx,
   handlerRuns |-> 0, stages |-> <<>>, fetches |-> 0,
   resolverCalls |-> 0, storeUp |-> TRUE]

Init ==
  /\ now = 0 /\ users = UserRows
  /\ pc = "idle" /\ header = <<>>
  /\ tokenString = <<>> /\ token = NoToken /\ verr = ""
  /\ jwks = NoFetch /\ key = NoKey /\ valid = FALSE /\ claims = NoClaims
  /\ user = NoUser /\ response = NoResponse /\ aborted = FALSE
  /\ ctx = NoCtx /\ handlerRuns = 0 /\ stages = <<>> /\ fetches = 0
  /\ resolverCalls = 0 /\ storeUp = TRUE
  /\ gets = 0 /\ parked = Fresh
  /\ bankrolls = SeedBankrolls /\ seq = Cardinality(SeedBankrolls)
  /\ started = 0
  /\ calls = [c \in Callers |-> NoCall]
  /\ clock = 0 /\ kc = NewKeycloakAdapter
  /\ realm = {}
  /\ regs = [c \in Callers |-> NoRegister] /\ regStarted = 0
  /\ entry = NoEntry

\* The rejection without c.Abort(): gin goes on to the next handler.
Reject_NoAbort(status, code, msg) ==
  /\ response' = [status |-> status, code |-> code, error |-> msg]
  /\ aborted' = FALSE
  /\ pc' = "next"

\* c.JSON(status, gin.H{"error": msg, "code": code}); c.Abort(); return
Reject(status, code, msg) ==
  /\ response' = [status |-> status, code |-> code, error |-> msg]
  /\ aborted' = TRUE
  /\ pc' = "done"

\* A request reaches the middleware with a fresh gin context.
Arrive(h) ==
  /\ pc = "idle"
  /\ header' = h /\ pc' = "gate"
  /\ tokenString' = <<>> /\ token' = NoToken /\ verr' = ""
  /\ jwks' = NoFetch /\ key' = NoKey /\ valid' = FALSE /\ claims' = NoClaims
  /\ user' = NoUser /\ response' = NoResponse /\ aborted' = FALSE
  /\ ctx' = NoCtx /\ handlerRuns' = 0 /\ stages' = <<>> /\ fetches' = 0
  /\ resolverCalls' = 0 /\ storeUp' = TRUE
  /\ UNCHANGED envVars

\* Header classification.
Gate ==
  /\ pc = "gate"
  /\ IF header = <<>>
     THEN /\ Reject(401, "MISSING_TOKEN", "Authorization header required")
          /\ UNCHANGED tokenString
     ELSE LET parts == Split(header)
          IN IF Len(parts) # 2 \/ parts[1] # <<Bearer>>
             THEN /\ Reject(401, "INVALID_TOKEN_FORMAT",
                            "Invalid authorization format")
                  /\ UNCHANGED tokenString
             ELSE /\ tokenString' = parts[2]
                  /\ pc' = "parse"
                  /\ UNCHANGED <<response, aborted>>
  /\ UNCHANGED <<header, token, verr, jwks, key, valid, claims, user, ctx,
                 handlerRuns, stages, fetches, resolverCalls, storeUp>>
  /\ UNCHANGED envVars

\* The rejection telling an expired token from the other failures.
RejectInvalidToken_Leaky ==
  IF verr = "expired"
  THEN Reject(401, "TOKEN_EXPIRED", "Token has expired")
  ELSE Reject(401, "INVALID_TOKEN", "Invalid or expired token")

\* The rejection of a token answered as a server error.
RejectInvalidToken_ServerError ==
  Reject(500, "INVALID_TOKEN", "Invalid or expired token")

\* The check after jwt.Parse: any error, or a token not marked valid, is
\* answered with the one INVALID_TOKEN response.
RejectInvalidToken == Reject(401, "INVALID_TOKEN", "Invalid or expired token")

\* The parser collecting the error and going on with the next stage.
AfterStage_Continue(err, nextPc) == nextPc

\* jwt.Parse returns at the first stage that fails: the stage's error sends
\* control to the middleware's check, no error to the next stage.
AfterStage(err, nextPc) == IF err # "" THEN "check" ELSE nextPc

\* jwt.Parse, first part: split and decode the token, look up its method.
ParseToken ==
  /\ pc = "parse"
  /\ LET r == ParseUnverified(tokenString)
     IN /\ token' = r.tok
        /\ verr' = r.err
        /\ pc' = AfterStage(r.err, "keyfunc")
  /\ stages' = Append(stages, "parse")
  /\ UNCHANGED <<header, tokenString, jwks, key, valid, claims, fetches>>
  /\ UNCHANGED exitVars /\ UNCHANGED envVars

\* The keyfunc's first statement: only RSA signing methods are accepted.
KeyfuncErr(tok) ==
  IF IsSigningMethodRSA(tok.alg) THEN "" ELSE "unexpected-method"

KeyfuncAlg ==
  /\ pc = "keyfunc"
  /\ verr' = KeyfuncErr(token)
  /\ pc' = AfterStage(KeyfuncErr(token), "fetch")
  /\ stages' = Append(stages, "alg")
  /\ UNCHANGED <<header, tokenString, token, jwks, key, valid, claims,
                 fetches>>
  /\ UNCHANGED exitVars /\ UNCHANGED envVars

\* A failed GET tried once more.
GetsFor_RetryOnFailure(out) == IF out.kind = "neterr" THEN 2 ELSE 1

\* fetchPublicKey calls http.Get once, whatever the call yields, and keeps
\* nothing of what it yields.
GetsFor(out) == 1

\* The keyfunc's call of fetchPublicKey: one GET, whose outcome is out.
FetchKey(out) ==
  /\ pc = "fetch"
  /\ fetches' = fetches + GetsFor(out)
  /\ gets' = gets + GetsFor(out)
  /\ jwks' = out
  /\ LET r == fetchPublicKey(token, out)
     IN /\ verr' = r.err
        /\ key' = r.key
        /\ pc' = AfterStage(r.err, "verify")
  /\ stages' = Append(stages, "key")
  /\ UNCHANGED <<header, tokenString, token, valid, claims>>
  /\ UNCHANGED exitVars /\ UNCHANGED <<now, users, parked, outsideVars>>

\* jwt.Parse, signature check with the key the keyfunc returned.
VerifySignature ==
  /\ pc = "verify"
  /\ LET e == IF SignatureVerifies(token, key) THEN "" ELSE "signature"
     IN /\ verr' = e
        /\ pc' = AfterStage(e, "validate")
  /\ stages' = Append(stages, "signature")
  /\ UNCHANGED <<header, tokenString, token, jwks, key, valid, claims,
                 fetches>>
  /\ UNCHANGED exitVars /\ UNCHANGED envVars

\* jwt.Parse, last part: the registered claims are validated against the
\* clock, which shows t; a token that passes is marked valid.
ValidateToken(t) ==
  /\ pc = "validate"
  /\ now' = t
  /\ LET e == ValidateClaims(token, t)
     IN /\ verr' = e
        /\ valid' = (e = "")
  /\ pc' = "check"
  /\ stages' = Append(stages, "expiry")
  /\ UNCHANGED <<header, tokenString, token, jwks, key, claims, fetches,
                 users, gets, parked, outsideVars>>
  /\ UNCHANGED exitVars

\* err != nil || !token.Valid
TokenRejected(err, isValid) == err # "" \/ ~isValid

\* The middleware's check of what jwt.Parse returned: a rejected token is
\* answered with the one INVALID_TOKEN response, the claims of an accepted
\* one are read.
CheckToken ==
  /\ pc = "check"
  /\ IF TokenRejected(verr, valid)
     THEN RejectInvalidToken /\ UNCHANGED claims
     ELSE /\ claims' = ClaimsOf(token)
          /\ pc' = "resolve"
          /\ UNCHANGED <<response, aborted>>
  /\ UNCHANGED <<header, tokenString, token, verr, jwks, key, valid, user,
                 ctx, handlerRuns, stages, fetches, resolverCalls, storeUp>>
  /\ UNCHANGED envVars

\* The subject claim with a type other than string passing the check.
SubjectIsString_Unchecked(c) == TRUE

\* The subject claim is present and a string.
SubjectIsString(c) == c.sub.t = "str"

\* The identity attached as the earlier middleware did: the subject claim.
ResolvedContext_RawSubject(u) ==
  [userID |-> Str(u.IdentityID), email |-> Str(u.Email)]

\* The identity attached for a resolved user: its numeric ID as decimal text
\* and its email.
ResolvedContext(u) ==
  [userID |-> Str(FormatUint(u.ID)), email |-> Str(u.Email)]

\* Resolution of the verified subject to a local user; dbOk tells whether
\* the store answers the query.
ResolveIdentity(dbOk) ==
  /\ pc = "resolve"
  /\ IF ~SubjectIsString(claims)
     THEN /\ Reject(401, "INVALID_SUBJECT_CLAIM",
                    "Invalid subject claim in token")
          /\ UNCHANGED <<user, ctx, resolverCalls, storeUp, users>>
     ELSE LET r == FindByIdentityID(users, claims.sub.v,
                                    IdentityAdapterKeycloak, dbOk)
          IN /\ resolverCalls' = resolverCalls + 1
             /\ storeUp' = dbOk
             /\ users' = RowsAfterFind(users, claims.sub.v)
             /\ IF r.err = "not-found"
                THEN /\ Reject(401, "USER_NOT_FOUND", "User not found")
                     /\ UNCHANGED <<user, ctx>>
                ELSE IF r.err # ""
                THEN /\ Reject(500, "INTERNAL_ERROR", "Failed to resolve user")
                     /\ UNCHANGED <<user, ctx>>
                ELSE /\ user' = r.user
                     /\ ctx' = ResolvedContext(r.user)
                     /\ pc' = "next"
                     /\ UNCHANGED <<response, aborted>>
  /\ UNCHANGED <<header, handlerRuns, stages, fetches>>
  /\ UNCHANGED parseVars /\ UNCHANGED <<now, gets, parked, outsideVars>>

\* c.Next(): the downstream handler runs.
Downstream ==
  /\ pc = "next"
  /\ handlerRuns' = handlerRuns + 1
  /\ pc' = "done"
  /\ UNCHANGED <<header, user, response, aborted, ctx, stages, fetches,
                 resolverCalls, storeUp>>
  /\ UNCHANGED parseVars /\ UNCHANGED envVars

Next ==
  \/ pc = "idle" /\ \E h \in Headers : Arrive(h)
  \/ Gate
  \/ ParseToken
  \/ KeyfuncAlg
  \/ pc = "fetch" /\ \E out \in FetchOutcomes : FetchKey(out)
  \/ VerifySignature
  \/ \E t \in 1..MaxNow : ValidateToken(t)
  \/ CheckToken
  \/ \E dbOk \in BOOLEAN : ResolveIdentity(dbOk)
  \/ Downstream

Spec == Init /\ [][Next]_vars

TypeOK ==
  /\ pc \in {"idle", "gate", "parse", "keyfunc", "fetch", "verify",
             "validate", "check", "resolve", "next", "done"}
  /\ now \in 0..MaxNow
  /\ handlerRuns \in 0..1 /\ fetches \in 0..1 /\ resolverCalls \in 0..1
  /\ storeUp \in BOOLEAN /\ gets \in 0..2

\* ------------------------------------------------------------ two requests
\* The server handles every request in a goroutine of its own; the handler
\* closure has only locals, so two requests share the user store and the
\* key-set endpoint and nothing else. The runs below have two requests, the
\* running one and the parked one, with these headers and GET outcomes.
PairHeaders ==
  {<<>>,
   <<Bearer, Sp, Jwt(GoodToken)>>,
   <<Bearer, Sp, Jwt([GoodToken EXCEPT !.exp = 2])>>,
   <<Bearer, Sp, Jwt([GoodToken EXCEPT !.signer = "B", !.sub = Str(SubU2)])>>,
   <<Bearer, Sp, Jwt([GoodToken EXCEPT !.sub = Str(SubU3)])>>,
   <<Bearer, Sp, Jwt([GoodToken EXCEPT !.sub = Num, !.nbf = 2])>>,
   <<Bearer, Sp, Jwt([GoodToken EXCEPT !.kid = Absent])>>,
   <<Bearer, Sp, Jwt([GoodToken EXCEPT !.alg = "HS256"])>>}

PairOutcomes ==
  {[kind |-> "neterr", keys |-> <<>>],
   [kind |-> "ok", keys |-> <<[kid |-> KidK1, n |-> "nA", e |-> "AQAB"]>>],
   [kind |-> "badjson", keys |-> <<>>],
   [kind |-> "ok", keys |-> <<[kid |-> KidK1, n |-> "nB", e |-> "AQAB"]>>]}

\* The switch with the key kept in a variable of the package, which both
\* requests read and write.
Switch_SharedKey ==
  /\ parked' = Locals
  /\ now' = parked.now /\ pc' = parked.pc /\ header' = parked.header
  /\ tokenString' = parked.tokenString /\ token' = parked.token
  /\ verr' = parked.verr /\ jwks' = parked.jwks /\ key' = key
  /\ valid' = parked.valid /\ claims' = parked.claims /\ user' = parked.user
  /\ response' = parked.response /\ aborted' = parked.aborted
  /\ ctx' = parked.ctx /\ handlerRuns' = parked.handlerRuns
  /\ stages' = parked.stages /\ fetches' = parked.fetches
  /\ resolverCalls' = parked.resolverCalls /\ storeUp' = parked.storeUp
  /\ UNCHANGED <<users, gets, outsideVars>>

\* The scheduler parks the running request and resumes the other one: each
\* goes on with its own locals.
Switch ==
  /\ parked' = Locals
  /\ now' = parked.now /\ pc' = parked.pc /\ header' = parked.header
  /\ tokenString' = parked.tokenString /\ token' = parked.token
  /\ verr' = parked.verr /\ jwks' = parked.jwks /\ key' = parked.key
  /\ valid' = parked.valid /\ claims' = parked.claims /\ user' = parked.user
  /\ response' = parked.response /\ aborted' = parked.aborted
  /\ ctx' = parked.ctx /\ handlerRuns' = parked.handlerRuns
  /\ stages' = parked.stages /\ fetches' = parked.fetches
  /\ resolverCalls' = parked.resolverCalls /\ storeUp' = parked.storeUp
  /\ UNCHANGED <<users, gets, outsideVars>>

NextPair ==
  \/ pc = "idle" /\ \E h \in PairHeaders : Arrive(h)
  \/ Gate
  \/ ParseToken
  \/ KeyfuncAlg
  \/ pc = "fetch" /\ \E out \in PairOutcomes : FetchKey(out)
  \/ VerifySignature
  \/ \E t \in 1..MaxNow : ValidateToken(t)
  \/ CheckToken
  \/ \E dbOk \in BOOLEAN : ResolveIdentity(dbOk)
  \/ Downstream
  \/ Switch

SpecPair == Init /\ [][NextPair]_vars

\* =============================================================== bankrolls
\* Bound on the calls of the bankroll code started in one run.
MaxCalls == 2

\* The rows of one user, and the row with an id that a user owns.
RowsOfUser(rows, userID) == {b \in rows : b.UserID = userID}
OwnedRow(rows, id, userID) == {b \in rows : b.ID = id /\ b.UserID = userID}

\* The constraints of table bankrolls: primary key, one name per user,
\* balances not negative, commission from 0 to 100.
RowAllowed(rows, b) ==
  /\ \A o \in rows : o.ID # b.ID
  /\ \A o \in rows : ~(o.UserID = b.UserID /\ o.Name = b.Name)
  /\ b.InitialBalance >= 0 /\ b.CurrentBalance >= 0
  /\ b.CommissionPercentage >= 0 /\ b.CommissionPercentage <= 100

\* One statement of a call ends: the call record is replaced.
SetCall(c, k) == calls' = [calls EXCEPT ![c] = k]
Fail(k, e) == [k EXCEPT !.err = e, !.pc = "ret"]

\* WrapError(ErrDatabaseError, err.Error()): the error of the database with
\* what the database said, a lost connection or a refused row.
DbFail(k, why) ==
  [k EXCEPT !.err = "ErrDatabaseError", !.detail = why, !.pc = "ret"]

\* Create, first statement: the SELECT of a row of the user with the name.
CreateSelect(c, ok) ==
  /\ calls[c].op = "Create" /\ calls[c].pc = "select"
  /\ LET k == calls[c]
         dup == \E b \in bankrolls :
                  b.UserID = k.arg.UserID /\ b.Name = k.arg.Name
     IN SetCall(c, IF ok /\ dup THEN Fail(k, "ErrBankrollNameExists")
                   ELSE IF ~ok THEN DbFail(k, "connection")
                   ELSE [k EXCEPT !.pc = "write"])
  /\ UNCHANGED <<bankrolls, seq, started>> /\ UNCHANGED <<authVars, regVars, entry>>

\* Create, second statement: the INSERT; the table's sequence gives the id,
\* and a row the constraints refuse is an error of the database.
CreateInsert(c, ok) ==
  /\ calls[c].op = "Create" /\ calls[c].pc = "write"
  /\ LET k == calls[c]
         row == [k.arg EXCEPT !.ID = seq + 1]
     IN IF ok /\ RowAllowed(bankrolls, row)
        THEN /\ bankrolls' = bankrolls \cup {row}
             /\ seq' = seq + 1
             /\ SetCall(c, [k EXCEPT !.arg = row, !.pc = "ret"])
        ELSE /\ SetCall(c, DbFail(k, IF ok THEN "constraint"
                                       ELSE "connection"))
             /\ seq' = (IF ok THEN seq + 1 ELSE seq)
             /\ UNCHANGED bankrolls
  /\ UNCHANGED started /\ UNCHANGED <<authVars, regVars, entry>>

\* Update, first statement: the SELECT of the row by id and user.
UpdateSelectOwn(c, ok) ==
  /\ calls[c].op = "Update" /\ calls[c].pc = "select"
  /\ LET k == calls[c]
     IN SetCall(c, IF ~ok THEN DbFail(k, "connection")
                   ELSE IF OwnedRow(bankrolls, k.arg.ID, k.arg.UserID) = {}
                   THEN Fail(k, "ErrBankrollNotFound")
                   ELSE [k EXCEPT !.pc = "select2"])
  /\ UNCHANGED <<bankrolls, seq, started>> /\ UNCHANGED <<authVars, regVars, entry>>

\* Update, second statement: the SELECT of another row of the user with the
\* new name.
UpdateSelectOther(c, ok) ==
  /\ calls[c].op = "Update" /\ calls[c].pc = "select2"
  /\ LET k == calls[c]
         dup == \E b \in bankrolls :
                  /\ b.UserID = k.arg.UserID /\ b.Name = k.arg.Name
                  /\ b.ID # k.arg.ID
     IN SetCall(c, IF ok /\ dup THEN Fail(k, "ErrBankrollNameExists")
                   ELSE IF ~ok THEN DbFail(k, "connection")
                   ELSE [k EXCEPT !.pc = "write"])
  /\ UNCHANGED <<bankrolls, seq, started>> /\ UNCHANGED <<authVars, regVars, entry>>

\* The columns Update writes, with the balances written too.
UpdatedRow_WithBalances(old, new) ==
  [old EXCEPT !.Name = new.Name, !.Currency = new.Currency,
              !.StartDate = new.StartDate,
              !.CommissionPercentage = new.CommissionPercentage,
              !.InitialBalance = new.InitialBalance,
              !.CurrentBalance = new.CurrentBalance]

\* The columns Update writes: name, currency, start date, commission.
UpdatedRow(old, new) ==
  [old EXCEPT !.Name = new.Name, !.Currency = new.Currency,
              !.StartDate = new.StartDate,
              !.CommissionPercentage = new.CommissionPercentage]

\* Update, third statement: the UPDATE of the row with the id read before.
UpdateWrite(c, ok) ==
  /\ calls[c].op = "Update" /\ calls[c].pc = "write"
  /\ LET k == calls[c]
         old == {b \in bankrolls : b.ID = k.arg.ID}
         new == {UpdatedRow(b, k.arg) : b \in old}
         rest == bankrolls \ old
     IN IF ok /\ \A b \in new : RowAllowed(rest, b)
        THEN /\ bankrolls' = rest \cup new
             /\ SetCall(c, [k EXCEPT !.pc = "ret"])
        ELSE /\ SetCall(c, DbFail(k, IF ok THEN "constraint"
                                       ELSE "connection"))
             /\ UNCHANGED bankrolls
  /\ UNCHANGED <<seq, started>> /\ UNCHANGED <<authVars, regVars, entry>>

\* ListByUserID with the WHERE clause left out.
ListedRows_All(rows, userID) == rows

\* ListByUserID: the rows whose user_id is the argument.
ListedRows(rows, userID) == RowsOfUser(rows, userID)

ListByUserID(c, ok) ==
  /\ calls[c].op = "ListByUserID" /\ calls[c].pc = "select"
  /\ LET k == calls[c]
     IN SetCall(c, IF ~ok THEN DbFail(k, "connection")
                   ELSE [k EXCEPT !.pc = "ret",
                           !.out = ListedRows(bankrolls, k.arg.UserID)])
  /\ UNCHANGED <<bankrolls, seq, started>> /\ UNCHANGED <<authVars, regVars, entry>>

\* FindByID: the row with the id and the user, or ErrBankrollNotFound.
FindByID(c, ok) ==
  /\ calls[c].op = "FindByID" /\ calls[c].pc = "select"
  /\ LET k == calls[c]
         found == OwnedRow(bankrolls, k.arg.ID, k.arg.UserID)
     IN SetCall(c, IF ~ok THEN DbFail(k, "connection")
                   ELSE IF found = {} THEN Fail(k, "ErrBankrollNotFound")
                   ELSE [k EXCEPT !.pc = "ret", !.out = found])
  /\ UNCHANGED <<bankrolls, seq, started>> /\ UNCHANGED <<authVars, regVars, entry>>

\* Reset selecting the row by id alone.
ResetTargets_AnyOwner(rows, id, userID) == {b \in rows : b.ID = id}

\* The rows Reset's UPDATE selects: those with the id and the user.
ResetTargets(rows, id, userID) == OwnedRow(rows, id, userID)

\* The reset writing the current balance only.
ResetRow_CurrentOnly(b) == [b EXCEPT !.CurrentBalance = 0]

\* The columns Reset writes: initial_balance and current_balance, both 0.
ResetRow(b) == [b EXCEPT !.InitialBalance = 0, !.CurrentBalance = 0]

\* Reset: one UPDATE setting both balances to 0; no row affected is
\* ErrBankrollNotFound.
Reset(c, ok) ==
  /\ calls[c].op = "Reset" /\ calls[c].pc = "write"
  /\ LET k == calls[c]
         old == ResetTargets(bankrolls, k.arg.ID, k.arg.UserID)
         new == {ResetRow(b) : b \in old}
     IN IF ~ok
        THEN SetCall(c, DbFail(k, "connection")) /\ UNCHANGED bankrolls
        ELSE IF old = {}
        THEN SetCall(c, Fail(k, "ErrBankrollNotFound"))
             /\ UNCHANGED bankrolls
        ELSE /\ bankrolls' = (bankrolls \ old) \cup new
             /\ SetCall(c, [k EXCEPT !.pc = "ret"])
  /\ UNCHANGED <<seq, started>> /\ UNCHANGED <<authVars, regVars, entry>>

\* A caller is free when it is in no call. The callers being alike, a call
\* that starts while both are free is p's; q's calls start during p's.
Free(c) == calls[c].pc \in {"idle", "ret"} /\ calls[c].stage = 0
MayStart(c) ==
  Free(c) /\ started < MaxCalls /\ (c = "q" => ~Free("p"))
FirstPc(op) == IF op = "Reset" THEN "write" ELSE "select"
RepoCall(k, op, b) ==
  [k EXCEPT !.op = op, !.pc = FirstPc(op), !.arg = b, !.err = "",
            !.detail = "", !.out = {}]

\* A direct call of repository method Update with a bankroll of that id
\* and user and the columns sent.
StartUpdate(c, id, userID, in) ==
  /\ MayStart(c)
  /\ started' = started + 1
  /\ SetCall(c, RepoCall(NoCall, "Update",
                BankrollRow(id, userID, in, in.InitialBalance,
                            in.InitialBalance)))
  /\ UNCHANGED <<bankrolls, seq>> /\ UNCHANGED <<authVars, regVars, entry>>

\* A direct call of FindByID, ListByUserID (the id is not used) or Reset.
StartRepo(c, op, id, userID) ==
  /\ MayStart(c)
  /\ started' = started + 1
  /\ SetCall(c, RepoCall(NoCall, op,
                [NoBankroll EXCEPT
                   !.ID = (IF op = "ListByUserID" THEN 0 ELSE id),
                   !.UserID = userID]))
  /\ UNCHANGED <<bankrolls, seq>> /\ UNCHANGED <<authVars, regVars, entry>>

\* The checks of the service before it touches the repository.
ValidCurrencies == {"BRL", "USD", "EUR", "BTC"}
CreateInputError(in) ==
  IF in.InitialBalance < 0 THEN "ErrNegativeBalance"
  ELSE IF in.CommissionPercentage < 0 \/ in.CommissionPercentage > 100
  THEN "ErrInvalidCommission"
  ELSE IF in.Currency \notin ValidCurrencies THEN "ErrInvalidCurrency"
  ELSE ""
UpdateInputError(in) ==
  IF in.CommissionPercentage < 0 \/ in.CommissionPercentage > 100
  THEN "ErrInvalidCommission"
  ELSE IF in.Currency \notin ValidCurrencies THEN "ErrInvalidCurrency"
  ELSE ""

\* The service ends a call with an error.
SvcFail(k, e) == [k EXCEPT !.svcErr = e, !.stage = 0, !.pc = "ret"]

\* The bankroll CreateBankroll builds, with a current balance of 0.
NewBankroll_ZeroCurrent(userID, in) ==
  BankrollRow(0, userID, in, in.InitialBalance, 0)

\* The bankroll CreateBankroll builds: the current balance is the initial
\* one.
NewBankroll(userID, in) ==
  BankrollRow(0, userID, in, in.InitialBalance, in.InitialBalance)

\* bankrollService.CreateBankroll: checks, then repo.Create.
StartCreateBankroll(c, userID, in) ==
  /\ MayStart(c)
  /\ started' = started + 1
  /\ LET k == [NoCall EXCEPT !.svc = "CreateBankroll",
                             !.arg = BankrollRow(0, userID, in, 0, 0)]
     IN SetCall(c, IF CreateInputError(in) # ""
                   THEN SvcFail(k, CreateInputError(in))
                   ELSE [RepoCall(k, "Create", NewBankroll(userID, in))
                           EXCEPT !.stage = 1])
  /\ UNCHANGED <<bankrolls, seq>> /\ UNCHANGED <<authVars, regVars, entry>>

\* bankrollService.UpdateBankroll: checks, then repo.FindByID.
StartUpdateBankroll(c, userID, id, in) ==
  /\ MayStart(c)
  /\ started' = started + 1
  /\ LET k == [NoCall EXCEPT !.svc = "UpdateBankroll",
                             !.arg = BankrollRow(id, userID, in, 0, 0)]
     IN SetCall(c, IF UpdateInputError(in) # ""
                   THEN SvcFail(k, UpdateInputError(in))
                   ELSE [RepoCall(k, "FindByID", k.arg) EXCEPT !.stage = 1])
  /\ UNCHANGED <<bankrolls, seq>> /\ UNCHANGED <<authVars, regVars, entry>>

\* bankrollService.ResetBankroll: repo.FindByID first.
StartResetBankroll(c, userID, id) ==
  /\ MayStart(c)
  /\ started' = started + 1
  /\ LET k == [NoCall EXCEPT !.svc = "ResetBankroll",
                             !.arg = [NoBankroll EXCEPT !.ID = id,
                                                       !.UserID = userID]]
     IN SetCall(c, [RepoCall(k, "FindByID", k.arg) EXCEPT !.stage = 1])
  /\ UNCHANGED <<bankrolls, seq>> /\ UNCHANGED <<authVars, regVars, entry>>

\* The one row a FindByID returned.
TheRow(k) == CHOOSE b \in k.out : TRUE

\* The service goes on after a repository call returned: an error ends the
\* service call with that error; otherwise the next repository call is made
\* or the output is returned.
ServiceStep(c) ==
  /\ calls[c].stage > 0 /\ calls[c].pc = "ret"
  /\ LET k == calls[c]
     IN SetCall(c,
          IF k.err # "" THEN SvcFail(k, k.err)
          ELSE IF k.svc = "CreateBankroll"
          THEN [k EXCEPT !.svcOut = k.arg, !.stage = 0]
          ELSE IF k.stage = 1 /\ k.svc = "UpdateBankroll"
          THEN [RepoCall(k, "Update",
                         [k.arg EXCEPT
                            !.InitialBalance = TheRow(k).InitialBalance,
                            !.CurrentBalance = TheRow(k).CurrentBalance])
                  EXCEPT !.stage = 2]
          ELSE IF k.stage = 1
          THEN [RepoCall(k, "Reset", k.arg) EXCEPT !.stage = 2]
          ELSE IF k.stage = 2
          THEN [RepoCall(k, "FindByID", k.arg) EXCEPT !.stage = 3]
          ELSE [k EXCEPT !.svcOut = TheRow(k), !.stage = 0])
  /\ UNCHANGED <<bankrolls, seq, started>> /\ UNCHANGED <<authVars, regVars, entry>>

\* The ids a caller names: the id of a stored bankroll (the first, of user
\* 1) and the id the sequence has not given out yet.
KnownIDs == {1, seq + 1}

NextBankroll ==
  \/ \E c \in Callers, ok \in BOOLEAN : CreateSelect(c, ok)
  \/ \E c \in Callers, ok \in BOOLEAN : CreateInsert(c, ok)
  \/ \E c \in Callers, ok \in BOOLEAN : UpdateSelectOwn(c, ok)
  \/ \E c \in Callers, ok \in BOOLEAN : UpdateSelectOther(c, ok)
  \/ \E c \in Callers, ok \in BOOLEAN : UpdateWrite(c, ok)
  \/ \E c \in Callers, ok \in BOOLEAN : ListByUserID(c, ok)
  \/ \E c \in Callers, ok \in BOOLEAN : FindByID(c, ok)
  \/ \E c \in Callers, ok \in BOOLEAN : Reset(c, ok)
  \/ \E c \in Callers, id \in KnownIDs, u \in BankrollUsers,
        in \in BankrollInputs : StartUpdate(c, id, u, in)
  \/ \E c \in Callers, op \in {"FindByID", "ListByUserID", "Reset"},
        id \in KnownIDs, u \in BankrollUsers : StartRepo(c, op, id, u)
  \/ \E c \in Callers, u \in BankrollUsers, in \in BankrollInputs :
       StartCreateBankroll(c, u, in)
  \/ \E c \in Callers, u \in BankrollUsers, id \in KnownIDs,
        in \in BankrollInputs : StartUpdateBankroll(c, u, id, in)
  \/ \E c \in Callers, u \in BankrollUsers, id \in KnownIDs :
       StartResetBankroll(c, u, id)
  \/ \E c \in Callers : ServiceStep(c)

SpecBankroll == Init /\ [][NextBankroll]_vars

\* ============================================================ registration
MaxRegisters == 2
MaxTicks == 3
\* ensureAdminToken refreshes within this many seconds of the expiry.
RefreshMargin == 30
\* The seconds between two readings of the clock that differ.
ClockStep == RefreshMargin
\* backoff.WithMaxRetries(expBackoff, 3)
MaxRetries == 3
\* expBackoff.MaxElapsedTime = 5 * time.Second
MaxElapsedTime == 5

\* The lookup that finds nobody.
ExistingUser_None(rows, email) == {}

\* FindByEmail: the rows WHERE email = ?.
ExistingUser(rows, email) == {u \in rows : u.Email = email}

\* The id Keycloak gives the n-th user of the realm.
NewIdentityID(n) == <<"k">> \o FormatUint(n)

\* The id the users table's sequence gives the next row.
NextUserID(rows) ==
  1 + (CHOOSE m \in {u.ID : u \in rows} : \A u \in rows : u.ID <= m)

\* The back-off allowing one retry more.
BackOffStops_OneMore(retries, elapsed) ==
  retries > MaxRetries \/ elapsed > MaxElapsedTime

\* NextBackOff returns Stop: the retries are used up or the elapsed time
\* is over MaxElapsedTime (the intervals, under two seconds in all, are
\* below the clock's step).
BackOffStops(retries, elapsed) ==
  retries >= MaxRetries \/ elapsed > MaxElapsedTime

\* The refresh due whatever the stored expiry.
RefreshDue_Always(t, expires) == TRUE

\* time.Now().After(k.tokenExpires.Add(-30 * time.Second))
RefreshDue(t, expires) == t > expires - RefreshMargin

SetRegister(c, k) == regs' = [regs EXCEPT ![c] = k]
RegFree(c) == regs[c].pc \in {"idle", "ret"}
\* Register returns: its locals are gone, the error and the output stay
\* with the caller (with them the number of invocations of the operation
\* and the identity created, for the record).
RegisterReturns(k, e) ==
  [k EXCEPT !.pc = "ret", !.err = e, !.began = 0, !.token = ""]

\* Register is called: validator.Struct finds no validate tag on
\* RegisterInput and returns nil, the email lookup is next.
StartRegister(c, email) ==
  /\ RegFree(c) /\ regStarted < MaxRegisters
  /\ c = "q" => ~RegFree("p")
  /\ SetRegister(c, [NoRegister EXCEPT !.pc = "lookup", !.email = email])
  /\ regStarted' = regStarted + 1
  /\ UNCHANGED <<clock, kc, realm, users>>
  /\ UNCHANGED <<requestVars, bankVars, entry>>

\* s.repo.FindByEmail and the two returns after it; with no user found
\* identityProvider.CreateUser starts retryWithBackoff, which invokes the
\* operation.
RegisterLookup(c, ok) ==
  LET k == regs[c]
  IN /\ k.pc = "lookup"
     /\ IF ~ok THEN SetRegister(c, RegisterReturns(k, "ErrDatabaseError"))
        ELSE IF ExistingUser(users, k.email) # {}
        THEN SetRegister(c, RegisterReturns(k, "ErrUserAlreadyExists"))
        ELSE SetRegister(c, [k EXCEPT !.pc = "ensure", !.attempts = 1,
                                      !.began = clock])
     /\ UNCHANGED <<clock, kc, realm, regStarted, users>>
     /\ UNCHANGED <<requestVars, bankVars, entry>>

\* ensureAdminToken: the comparison of the clock with the stored expiry.
EnsureAdminToken(c) ==
  LET k == regs[c]
  IN /\ k.pc = "ensure"
     /\ SetRegister(c, [k EXCEPT !.pc =
          IF RefreshDue(clock, kc.tokenExpires) THEN "login" ELSE "create"])
     /\ UNCHANGED <<clock, kc, realm, regStarted, users>>
     /\ UNCHANGED <<requestVars, bankVars, entry>>

\* The operation's result goes back to RetryNotify: a permanent error ends
\* the call, another error ends it when the back-off stops and invokes the
\* operation again otherwise; Register wraps the call's error.
OperationFailed(k, permanent) ==
  IF permanent
  THEN [RegisterReturns(k, "ErrIdentityProviderError")
          EXCEPT !.idpErr = "permanent"]
  ELSE IF BackOffStops(k.attempts - 1, clock - k.began)
  THEN [RegisterReturns(k, "ErrIdentityProviderError")
          EXCEPT !.idpErr = "retries"]
  ELSE [k EXCEPT !.pc = "ensure", !.attempts = k.attempts + 1]

\* refreshAdminToken, k.client.LoginAdmin: the server issues a token, or
\* the login fails and the operation returns backoff.Permanent(err).
LoginAdmin(c, ok) ==
  LET k == regs[c]
  IN /\ k.pc = "login"
     /\ IF ok
        THEN SetRegister(c, [k EXCEPT !.pc = "storeToken", !.token = c])
        ELSE SetRegister(c, OperationFailed(k, TRUE))
     /\ UNCHANGED <<clock, kc, realm, regStarted, users>>
     /\ UNCHANGED <<requestVars, bankVars, entry>>

\* k.adminToken = token
StoreAdminToken(c) ==
  LET k == regs[c]
  IN /\ k.pc = "storeToken"
     /\ kc' = [kc EXCEPT !.adminToken = k.token]
     /\ SetRegister(c, [k EXCEPT !.pc = "storeExpiry"])
     /\ UNCHANGED <<clock, realm, regStarted, users>>
     /\ UNCHANGED <<requestVars, bankVars, entry>>

\* k.tokenExpires = time.Now().Add(token.ExpiresIn seconds); return nil
StoreTokenExpires(c) ==
  LET k == regs[c]
  IN /\ k.pc = "storeExpiry"
     /\ kc' = [kc EXCEPT !.tokenExpires = clock + AdminExpiresIn,
                         !.expiresOf = k.token]
     /\ SetRegister(c, [k EXCEPT !.pc = "create"])
     /\ UNCHANGED <<clock, realm, regStarted, users>>
     /\ UNCHANGED <<requestVars, bankVars, entry>>

\* k.client.CreateUser with k.adminToken.AccessToken: the realm takes the
\* user unless it has one of that name or the request fails.
KeycloakCreateUser(c, ok) ==
  LET k == regs[c]
  IN /\ k.pc = "create"
     /\ IF ok /\ k.email \notin realm
        THEN /\ realm' = realm \cup {k.email}
             /\ SetRegister(c, [k EXCEPT
                  !.pc = "password",
                  !.userID = NewIdentityID(Cardinality(realm) + 1)])
        ELSE /\ SetRegister(c, OperationFailed(k, FALSE))
             /\ UNCHANGED realm
     /\ UNCHANGED <<clock, kc, regStarted, users>>
     /\ UNCHANGED <<requestVars, bankVars, entry>>

\* k.client.SetPassword with k.adminToken.AccessToken; its success is the
\* operation's, and CreateUser returns the user's id.
KeycloakSetPassword(c, ok) ==
  LET k == regs[c]
  IN /\ k.pc = "password"
     /\ IF ok
        THEN SetRegister(c, [k EXCEPT !.pc = "insert"])
        ELSE SetRegister(c, OperationFailed(k, FALSE))
     /\ UNCHANGED <<clock, kc, realm, regStarted, users>>
     /\ UNCHANGED <<requestVars, bankVars, entry>>

\* s.repo.CreateUser: the INSERT, refused by the unique index on email or
\* failing with the database; then Register's return.
InsertUser(c, ok) ==
  LET k == regs[c]
      row == [ID |-> NextUserID(users), Email |-> k.email,
              IdentityID |-> k.userID,
              IdentityAdapter |-> IdentityAdapterKeycloak]
  IN /\ k.pc = "insert"
     /\ IF ok /\ ExistingUser(users, k.email) = {}
        THEN /\ users' = users \cup {row}
             /\ SetRegister(c, [RegisterReturns(k, "") EXCEPT !.out = row.ID])
        ELSE /\ SetRegister(c, RegisterReturns(k, "ErrDatabaseError"))
             /\ UNCHANGED users
     /\ UNCHANGED <<clock, kc, realm, regStarted>>
     /\ UNCHANGED <<requestVars, bankVars, entry>>

\* Time passes.
TickClock ==
  /\ clock < MaxTicks * ClockStep
  /\ clock' = clock + ClockStep
  /\ UNCHANGED <<kc, realm, regs, regStarted, users>>
  /\ UNCHANGED <<requestVars, bankVars, entry>>

\* The steps of caller c inside Register.
RegisterStep(c) ==
  \/ \E ok \in BOOLEAN : RegisterLookup(c, ok)
  \/ EnsureAdminToken(c)
  \/ \E ok \in BOOLEAN : LoginAdmin(c, ok)
  \/ StoreAdminToken(c)
  \/ StoreTokenExpires(c)
  \/ \E ok \in BOOLEAN : KeycloakCreateUser(c, ok)
  \/ \E ok \in BOOLEAN : KeycloakSetPassword(c, ok)
  \/ \E ok \in BOOLEAN : InsertUser(c, ok)

\* Registrations of two callers at once.
NextRegister ==
  \/ \E c \in Callers, email \in RegisterEmails : StartRegister(c, email)
  \/ \E c \in Callers : RegisterStep(c)
  \/ TickClock
SpecRegister == Init /\ [][NextRegister]_vars

\* Registrations one after another, each running to its return.
NextRetry ==
  \/ \E email \in RegisterEmails : StartRegister("p", email)
  \/ RegisterStep("p")
  \/ TickClock
FairSpecRetry == Init /\ [][NextRetry]_vars /\ WF_vars(RegisterStep("p"))

\* ======================================================= bankroll handlers
\* The value of a decimal digit, 10 for any other character.
DigitOf(ch) ==
  CASE ch = "0" -> 0 [] ch = "1" -> 1 [] ch = "2" -> 2 [] ch = "3" -> 3
    [] ch = "4" -> 4 [] ch = "5" -> 5 [] ch = "6" -> 6 [] ch = "7" -> 7
    [] ch = "8" -> 8 [] ch = "9" -> 9 [] OTHER -> 10

RECURSIVE ZeroPad(_, _)
ZeroPad(s, n) == IF Len(s) >= n THEN s ELSE ZeroPad(<<"0">> \o s, n)

\* The decimal text of a uint in two parts: strconv.FormatUint(n, 10).
FormatUint64(n) ==
  IF n.hi = 0 THEN FormatUint(n.lo)
  ELSE FormatUint(n.hi) \o ZeroPad(FormatUint(n.lo), 8)

\* The text without its leading zeros.
RECURSIVE Significant(_)
Significant(s) ==
  IF s # <<>> /\ Head(s) = "0" THEN Significant(Tail(s)) ELSE s

\* The number a text of digits stands for, in two parts.
RECURSIVE UintValue(_)
UintValue(s) ==
  IF s = <<>> THEN Uint(0, 0)
  ELSE LET p == UintValue(SubSeq(s, 1, Len(s) - 1))
           l == p.lo * 10 + DigitOf(s[Len(s)])
       IN Uint(p.hi * 10 + l \div LimbBase, l % LimbBase)

\* n < 2^bitSize, for the width the handlers parse with
\* (2^32 = 42 * LimbBase + 94967296).
FitsIn(n, bitSize) ==
  CASE bitSize = 32 -> n.hi < 42 \/ (n.hi = 42 /\ n.lo < 94967296)

\* strconv.ParseUint(s, 10, bitSize): digits only, at least one, and a
\* value below 2^bitSize (a text of more than 16 significant digits is past
\* every width here).
ParseUint(s, bitSize) ==
  IF s = <<>> \/ \E i \in 1..Len(s) : DigitOf(s[i]) = 10
  THEN [err |-> "syntax", n |-> Uint(0, 0)]
  ELSE IF Len(Significant(s)) > 16
          \/ ~FitsIn(UintValue(Significant(s)), bitSize)
  THEN [err |-> "range", n |-> Uint(0, 0)]
  ELSE [err |-> "", n |-> UintValue(Significant(s))]

\* BankrollHandler.getUserID on the request's context: the value under
\* "userID" must be there, be a string and parse as a 32-bit unsigned
\* decimal, or the result is ErrUnauthorized.
getUserID(c) ==
  IF c.userID = Absent \/ c.userID.t # "str"
  THEN [err |-> "ErrUnauthorized", id |-> Uint(0, 0)]
  ELSE LET r == ParseUint(c.userID.v, 32)
       IN IF r.err # "" THEN [err |-> "ErrUnauthorized", id |-> Uint(0, 0)]
          ELSE [err |-> "", id |-> r.n]

\* The middleware lets the request of the resolved user through: the
\* context holds the decimal text of the user's ID.
PassMiddleware(id) ==
  /\ entry.pc = "idle"
  /\ entry' = [entry EXCEPT !.pc = "passed", !.user = id,
                            !.ctx = [userID |-> Str(FormatUint64(id))]]
  /\ UNCHANGED <<authVars, bankVars, regVars>>

\* The handler of POST /bankrolls, its body bound: getUserID, and through
\* handleError 403 UNAUTHORIZED when it fails.
EnterHandler ==
  /\ entry.pc = "passed"
  /\ LET r == getUserID(entry.ctx)
     IN entry' = [entry EXCEPT !.pc = "entered", !.err = r.err, !.id = r.id,
                               !.status = IF r.err # "" THEN 403 ELSE 0]
  /\ UNCHANGED <<authVars, bankVars, regVars>>

NextHandler ==
  \/ \E id \in UserIDSamples : PassMiddleware(id)
  \/ EnterHandler
SpecHandler == Init /\ [][NextHandler]_vars

\* =================================================================== claims
\* The token of a request whose header is "Bearer <token>".
HasToken == Len(header) = 3 /\ header[1] = Bearer /\ header[2] = Sp
            /\ header[3].kind = "jwt"
ReqToken == IF HasToken THEN header[3].tok ELSE NoToken

InvalidTokenResponse ==
  [status |-> 401, code |-> "INVALID_TOKEN",
   error |-> "Invalid or expired token"]

C3_UniformInvalidToken ==
  (pc = "done" /\ verr # "") => (response = InvalidTokenResponse /\ ~valid)

C3_Witness ==
  pc = "done" /\ verr = "expired" /\ response = InvalidTokenResponse

\* C4: for a token whose declared algorithm is outside RS256/RS384/RS512 no
\* GET of the key set is ever issued, and the request ends rejected.
RSAFamily == {"RS256", "RS384", "RS512"}
C4_NoFetchForNonRSA ==
  (HasToken /\ ReqToken.alg \notin RSAFamily) =>
    /\ fetches = 0 /\ jwks = NoFetch
    /\ pc \notin {"fetch", "verify", "validate", "resolve", "next"}
    /\ pc = "done" => response = InvalidTokenResponse

C4_Witness ==
  pc = "done" /\ HasToken /\ ReqToken.alg = "HS256"
  /\ verr = "unexpected-method" /\ fetches = 0

\* C5: an empty header is answered 401 MISSING_TOKEN, a non-empty header that
\* is not "Bearer", one space, and text without a space is answered 401
\* INVALID_TOKEN_FORMAT; in both cases no verification stage runs and no key
\* is fetched.
SpaceCount(h) == Cardinality({i \in 1..Len(h) : h[i].kind = "sp"})
WellFormedBearer(h) ==
  SpaceCount(h) = 1 /\ Len(h) >= 2 /\ h[1] = Bearer /\ h[2] = Sp
C5_HeaderClassified ==
  pc \notin {"idle", "gate"} =>
    /\ header = <<>> =>
         /\ response = [status |-> 401, code |-> "MISSING_TOKEN",
                        error |-> "Authorization header required"]
         /\ stages = <<>> /\ fetches = 0
    /\ (header # <<>> /\ ~WellFormedBearer(header)) =>
         /\ response = [status |-> 401, code |-> "INVALID_TOKEN_FORMAT",
                        error |-> "Invalid authorization format"]
         /\ stages = <<>> /\ fetches = 0
    /\ WellFormedBearer(header) =>
         response.code \notin {"MISSING_TOKEN", "INVALID_TOKEN_FORMAT"}

C5_Witness ==
  pc = "done" /\ header = <<Bearer, Sp, Raw, Sp, Raw>>
  /\ response.code = "INVALID_TOKEN_FORMAT"

\* C6 as stated: for a token without a string kid the key stage always ends
\* with the kid-missing error, whatever the GET produced, and no signature
\* is checked.
C6_KidMissingWhateverFetch ==
  (HasToken /\ ReqToken.kid.t # "str" /\ Len(stages) >= 3) =>
    (verr = "kid-missing" /\ Len(stages) = 3)

\* C6, amended: for a token without a string kid the key stage ends with a
\* key-resolution error and no signature is checked; the error is
\* kid-missing when the GET and the decoding of its body succeeded, and the
\* fetch or decode error otherwise, the key set being fetched first.
C6_KidMissingAfterFetch ==
  (HasToken /\ ReqToken.kid.t # "str" /\ Len(stages) >= 3) =>
    /\ verr = (IF jwks.kind = "neterr" THEN "fetch-failed"
               ELSE IF jwks.kind = "badjson" THEN "decode-failed"
               ELSE "kid-missing")
    /\ Len(stages) = 3 /\ key = NoKey /\ ~valid /\ fetches = 1
    /\ pc \in {"check", "done"}
    /\ pc = "done" => response = InvalidTokenResponse

C6_Witness ==
  pc = "done" /\ HasToken /\ ReqToken.kid = Absent /\ jwks.kind = "ok"
  /\ Len(jwks.keys) > 0 /\ verr = "kid-missing"

\* The key set has an entry with the token's kid that holds the public key
\* of the pair the token was signed with.
KeyInSet(t, ks) ==
  /\ t.kid.t = "str"
  /\ \E i \in 1..Len(ks) :
       ks[i].kid = t.kid.v /\ ks[i].n = ModulusText(t.signer)
       /\ ks[i].e = "AQAB"

\* C7: a token signed with a key that the fetched key set does not hold
\* under the token's kid is never verified; the request is rejected with
\* INVALID_TOKEN.
C7_AbsentKeyRejected ==
  (HasToken /\ jwks.kind = "ok" /\ ~KeyInSet(ReqToken, jwks.keys)) =>
    /\ ~valid /\ handlerRuns = 0
    /\ pc \in {"verify", "check", "done"}
    /\ pc = "done" => response = InvalidTokenResponse

C7_Witness ==
  pc = "done" /\ HasToken /\ jwks.kind = "ok"
  /\ ~KeyInSet(ReqToken, jwks.keys) /\ verr = "signature"
  /\ response = InvalidTokenResponse

\* C8: a token whose exp is before the time of validation is rejected with
\* 401 INVALID_TOKEN although its signature verified with a key of the set.
C8_ExpiredRejected ==
  (now # 0 /\ token.exp # NoTime /\ token.exp < now) =>
    /\ ~valid /\ verr = "expired" /\ handlerRuns = 0
    /\ pc \in {"check", "done"}
    /\ pc = "done" => response = InvalidTokenResponse

C8_Witness ==
  pc = "done" /\ now = 3 /\ token.exp = 2
  /\ key = PublicKeyOf(token.signer) /\ KeyInSet(token, jwks.keys)
  /\ response = InvalidTokenResponse

\* C9 as stated: an RSA token whose kid is in the fetched key set with the
\* matching public key, with a future expiry, is verified and its claims are
\* those of the payload.
C9_RoundTripAnyEntry ==
  (pc = "done" /\ HasToken /\ ReqToken.alg \in RSAFamily
   /\ jwks.kind = "ok" /\ KeyInSet(ReqToken, jwks.keys)
   /\ ReqToken.exp # NoTime /\ ReqToken.exp > now) =>
    (valid /\ verr = ""
     /\ claims = [sub |-> ReqToken.sub, exp |-> ReqToken.exp,
                  nbf |-> ReqToken.nbf])

\* The first entry of the key set with the token's kid holds the public key
\* of the pair the token was signed with.
FirstKeyMatches(t, ks) ==
  /\ t.kid.t = "str"
  /\ \E i \in 1..Len(ks) :
       /\ ks[i].kid = t.kid.v
       /\ \A j \in 1..(i - 1) : ks[j].kid # t.kid.v
       /\ ks[i].n = ModulusText(t.signer) /\ ks[i].e = "AQAB"

\* C9, amended: an RSA token for whose kid the first entry of the fetched key
\* set holds the matching public key reaches the validation of its claims,
\* and with an expiry after and no not-before later than the time of
\* validation it is verified and its claims are those of the payload.
C9_RoundTripFirstEntry ==
  (pc \in {"check", "resolve", "next", "done"} /\ HasToken
   /\ ReqToken.alg \in RSAFamily
   /\ jwks.kind = "ok" /\ FirstKeyMatches(ReqToken, jwks.keys)) =>
    /\ now # 0
    /\ (ReqToken.exp # NoTime /\ ReqToken.exp > now
        /\ (ReqToken.nbf = NoTime \/ ReqToken.nbf <= now)) =>
         /\ valid /\ verr = ""
         /\ pc # "check" =>
              claims = [sub |-> ReqToken.sub, exp |-> ReqToken.exp,
                        nbf |-> ReqToken.nbf]

C9_Witness ==
  pc = "resolve" /\ valid /\ HasToken /\ ReqToken.exp = 3 /\ ReqToken.nbf = 2
  /\ now = 2 /\ claims.sub = Str(SubU2) /\ Len(jwks.keys) = 2

\* C10: the stages run in the order parse/algorithm, key, signature, expiry;
\* the claims are validated only for a token whose signature verified; once
\* a stage has failed no further stage runs, the token never becomes valid,
\* and the request ends rejected and stays so.
StageOrder == <<"parse", "alg", "key", "signature", "expiry">>
IsPrefix(a, b) == Len(a) <= Len(b) /\ \A i \in 1..Len(a) : a[i] = b[i]
C10_StagesInOrder ==
  /\ [](IsPrefix(stages, StageOrder))
  /\ [](Len(stages) = 5 => key = PublicKeyOf(token.signer))
  /\ [](verr # "" => (~valid /\ pc \in {"check", "done"}))
  /\ [][verr # "" => (stages' = stages /\ verr' = verr /\ ~valid'
                      /\ pc' = "done" /\ response' = InvalidTokenResponse
                      /\ aborted')]_vars
  /\ [][pc # "done"]_vars

C10_Witness ==
  pc = "done" /\ verr = "signature"
  /\ stages = <<"parse", "alg", "key", "signature">>
  /\ response = InvalidTokenResponse

RowFor(sub) ==
  \E u \in users : u.IdentityID = sub /\ u.IdentityAdapter = "keycloak"

DigitValue(c) == CHOOSE d \in 0..9 : DigitChar(d) = c
RECURSIVE DecimalValue(_)
DecimalValue(text) ==
  IF Len(text) = 0 THEN 0
  ELSE 10 * DecimalValue(SubSeq(text, 1, Len(text) - 1))
       + DigitValue(text[Len(text)])
Digits == {DigitChar(d) : d \in 0..9}

C15_ServerErrorOnlyFromStore ==
  /\ response.status \in {0, 401, 500}
  /\ response.status = 500 <=> (pc = "done" /\ resolverCalls = 1 /\ ~storeUp)
  /\ response.status = 500 => (response.code = "INTERNAL_ERROR" /\ valid)
  /\ (pc = "done" /\ handlerRuns = 0 /\ storeUp) => response.status = 401

C15_Witness ==
  pc = "done" /\ response.status = 500 /\ ~storeUp
  /\ claims.sub = Str(SubU1) /\ RowFor(SubU1)

\* The two requests of a run.
BothRequests == {Locals, parked}

\* C16: a request issues one GET exactly when its verification reaches key
\* resolution and none before; the endpoint receives as many GETs as the
\* requests that reached key resolution, two for two of them, the second
\* one not served from what the first fetched; a failed GET is not tried
\* again: the request goes to its rejection with the fetch error.
C16_OneGetPerVerification ==
  /\ gets = fetches + parked.fetches
  /\ \A r \in BothRequests :
       /\ r.fetches = (IF Len(r.stages) >= 3 THEN 1 ELSE 0)
       /\ (r.jwks # NoFetch) <=> (r.fetches = 1)
       /\ r.pc \in {"verify", "validate", "resolve", "next"} => r.fetches = 1
       /\ r.jwks.kind = "neterr" =>
            /\ r.fetches = 1 /\ r.verr = "fetch-failed" /\ Len(r.stages) = 3
            /\ r.pc \in {"check", "done"}
            /\ r.pc = "done" => r.response = InvalidTokenResponse

C16_Witness ==
  /\ pc = "done" /\ parked.pc = "done" /\ header = parked.header
  /\ jwks.kind = "neterr" /\ response = InvalidTokenResponse
  /\ parked.jwks.kind = "ok" /\ parked.handlerRuns = 1
  /\ fetches = 1 /\ parked.fetches = 1 /\ gets = 2

\* What a finished request shows to the client and to the handler.
Outcome(r) ==
  [response |-> r.response, aborted |-> r.aborted, ctx |-> r.ctx,
   user |-> r.user, handlerRuns |-> r.handlerRuns, valid |-> r.valid,
   verr |-> r.verr]

\* C17: two verifications of the same token against the same fetched key
\* set and the same answering of the store, at times that do not differ for
\* the token's validity, end alike: same response, same resolved user, same
\* context; and no verification changes the rows of the store.
C17_SameTokenSameIdentity ==
  /\ users = UserRows
  /\ (pc = "done" /\ parked.pc = "done" /\ header = parked.header
      /\ jwks = parked.jwks /\ storeUp = parked.storeUp
      /\ ((now # 0 /\ parked.now # 0) =>
            ValidateClaims(token, now) = ValidateClaims(token, parked.now)))
       => Outcome(Locals) = Outcome(parked)

C17_Witness ==
  /\ pc = "done" /\ parked.pc = "done" /\ header = parked.header
  /\ header = <<Bearer, Sp, Jwt(GoodToken)>>
  /\ jwks = parked.jwks /\ now = 2 /\ parked.now = 1
  /\ handlerRuns = 1 /\ parked.handlerRuns = 1
  /\ user.ID = 42 /\ parked.user.ID = 42 /\ gets = 2

\* The rejection a request ends with.
Rejected(status, code, msg) ==
  [response |-> [status |-> status, code |-> code, error |-> msg],
   aborted |-> TRUE, ctx |-> NoCtx, user |-> NoUser, handlerRuns |-> 0]

\* The end of a request handled alone: the header it came with, the key set
\* its GET produced, the time its validation read and the answering of the
\* store to its query, against the rows of the store, decide it.
Alone(h, out, t, up, rows) ==
  LET invalid == Rejected(401, "INVALID_TOKEN", "Invalid or expired token")
      parts == Split(h)
  IN IF h = <<>>
     THEN Rejected(401, "MISSING_TOKEN", "Authorization header required")
     ELSE IF Len(parts) # 2 \/ parts[1] # <<Bearer>>
     THEN Rejected(401, "INVALID_TOKEN_FORMAT",
                   "Invalid authorization format")
     ELSE LET p == ParseUnverified(parts[2])
          IN IF p.err # "" \/ KeyfuncErr(p.tok) # "" THEN invalid
             ELSE LET f == fetchPublicKey(p.tok, out)
                  IN IF f.err # "" \/ ~SignatureVerifies(p.tok, f.key)
                        \/ ValidateClaims(p.tok, t) # ""
                     THEN invalid
                     ELSE IF p.tok.sub.t # "str"
                     THEN Rejected(401, "INVALID_SUBJECT_CLAIM",
                                   "Invalid subject claim in token")
                     ELSE LET q == FindByIdentityID(rows, p.tok.sub.v,
                                                    "keycloak", up)
                          IN IF q.err = "not-found"
                             THEN Rejected(401, "USER_NOT_FOUND",
                                           "User not found")
                             ELSE IF q.err # ""
                             THEN Rejected(500, "INTERNAL_ERROR",
                                           "Failed to resolve user")
                             ELSE [response |-> NoResponse,
                                   aborted |-> FALSE,
                                   ctx |-> ResolvedContext(q.user),
                                   user |-> q.user, handlerRuns |-> 1]

\* C18: under every interleaving of two requests, each request ends as it
\* would have ended alone with the same header, fetched key set, time and
\* store; what the other request does in between changes nothing of it.
C18_InterleavingIsInvisible ==
  \A r \in BothRequests :
    r.pc = "done" =>
      [response |-> r.response, aborted |-> r.aborted, ctx |-> r.ctx,
       user |-> r.user, handlerRuns |-> r.handlerRuns]
        = Alone(r.header, r.jwks, r.now, r.storeUp, UserRows)

C18_Witness ==
  /\ pc = "done" /\ handlerRuns = 1 /\ user.ID = 7
  /\ key = PublicKeyOf("B")
  /\ parked.pc = "verify" /\ parked.key = PublicKeyOf("A")
  /\ parked.token.sub = Str(SubU1)

\* The error and the key the key stage ended with are in verr and key as
\* long as no later stage has run.
KeyStageLast == Len(stages) = 3 /\ token.kid.t = "str"
Undecodable(jwk) ==
  B64Decode(jwk.n) = B64Error \/ B64Decode(jwk.e) = B64Error
MatchingEntries(t, ks) == {i \in 1..Len(ks) : ks[i].kid = t.kid.v}

\* C19 as stated: transport failure gives fetch-failed, a non-JSON body
\* decode-failed, a set without the token's kid key-not-found, a matching
\* entry with an undecodable modulus or exponent a decode error, and a key
\* is returned only when none of these occurs.
C19_AnyMatchingEntry ==
  KeyStageLast =>
    LET m == MatchingEntries(token, jwks.keys)
    IN /\ jwks.kind = "neterr" => verr = "fetch-failed"
       /\ jwks.kind = "badjson" => verr = "decode-failed"
       /\ (jwks.kind = "ok" /\ m = {}) => verr = "key-not-found"
       /\ (jwks.kind = "ok" /\ \E i \in m : Undecodable(jwks.keys[i])) =>
            verr \in {"decode-n", "decode-e"}
       /\ key # NoKey =>
            (jwks.kind = "ok" /\ m # {}
             /\ \A i \in m : ~Undecodable(jwks.keys[i]))

\* C19, amended: as stated, with the entry the decode error and the key
\* depend on being the first entry of the set with the token's kid: an
\* undecodable modulus or exponent of that entry gives the decode error,
\* and its key is returned exactly when none of the failures occurs.
C19_FirstMatchingEntry ==
  KeyStageLast =>
    LET m == MatchingEntries(token, jwks.keys)
        first == CHOOSE i \in m : \A j \in m : i <= j
    IN /\ fetches = 1
       /\ jwks.kind = "neterr" => verr = "fetch-failed"
       /\ jwks.kind = "badjson" => verr = "decode-failed"
       /\ (jwks.kind = "ok" /\ m = {}) => verr = "key-not-found"
       /\ (jwks.kind = "ok" /\ m # {}) =>
            /\ B64Decode(jwks.keys[first].n) = B64Error => verr = "decode-n"
            /\ (B64Decode(jwks.keys[first].n) # B64Error
                /\ B64Decode(jwks.keys[first].e) = B64Error) =>
                 verr = "decode-e"
            /\ ~Undecodable(jwks.keys[first]) =>
                 /\ verr = ""
                 /\ key = [N |-> B64Decode(jwks.keys[first].n),
                           E |-> B64Decode(jwks.keys[first].e)]
       /\ (key # NoKey) <=> (verr = "")
       /\ verr # "" => pc \in {"check", "done"}

C19_Witness ==
  /\ KeyStageLast /\ jwks.kind = "ok" /\ Len(jwks.keys) = 2
  /\ jwks.keys[1] = [kid |-> KidK1, n |-> "nA", e |-> BadB64]
  /\ jwks.keys[2] = [kid |-> KidK1, n |-> "nA", e |-> "AQAB"]
  /\ verr = "decode-e" /\ key = NoKey

\* The request carries an RS256 token whose kid is the empty string.
EmptyKidToken ==
  HasToken /\ ReqToken.alg = "RS256" /\ ReqToken.kid = Str(KidEmpty)

\* C20 as stated: an RS256 token whose kid is the empty string is rejected
\* with 401 INVALID_TOKEN whatever the fetched key set holds.
C20_EmptyKidAlwaysRejected ==
  (pc = "done" /\ EmptyKidToken) =>
    (response = InvalidTokenResponse /\ handlerRuns = 0)

\* C20, amended: an RS256 token whose kid is the empty string is rejected
\* with 401 INVALID_TOKEN whenever the fetched key set has no entry whose
\* kid is empty, however it is signed; the empty kid is a string and is
\* looked up like any other, so the token is verified exactly against the
\* first entry with an empty kid.
C20_EmptyKidNeedsEmptyEntry ==
  (EmptyKidToken /\ Len(stages) >= 3) =>
    /\ verr # "kid-missing"
    /\ (jwks.kind = "ok"
        /\ \A i \in 1..Len(jwks.keys) : jwks.keys[i].kid # KidEmpty) =>
         /\ verr = "key-not-found" /\ ~valid /\ handlerRuns = 0
         /\ pc \in {"check", "done"}
         /\ pc = "done" => response = InvalidTokenResponse
    /\ jwks.kind # "ok" =>
         (~valid /\ (pc = "done" => response = InvalidTokenResponse))
    /\ valid => FirstKeyMatches(ReqToken, jwks.keys)

C20_Witness ==
  /\ pc = "done" /\ EmptyKidToken /\ ReqToken.signer = "A"
  /\ ReqToken.exp = 3 /\ ReqToken.nbf = NoTime /\ jwks.kind = "ok"
  /\ jwks.keys = <<[kid |-> KidK1, n |-> "nA", e |-> "AQAB"]>>
  /\ verr = "key-not-found" /\ response = InvalidTokenResponse

\* ---------------------------------------------------------------- bankrolls
\* A repository Create or Update that has returned.
Returned(k, ops) == k.op \in ops /\ k.pc = "ret"

\* C21 as stated: no two stored bankrolls of one user have the same name,
\* and under any interleaving a Create or Update that the store refuses for
\* such a duplicate returns ErrBankrollNameExists, the other user's equal
\* name being no obstacle.
C21_DuplicateNameRefusedByName ==
  /\ \A a, b \in bankrolls :
       (a.UserID = b.UserID /\ a.Name = b.Name) => a = b
  /\ \A c \in Callers :
       (Returned(calls[c], {"Create", "Update"})
        /\ calls[c].err \notin {"", "ErrBankrollNotFound"}
        /\ calls[c].detail # "connection") =>
         calls[c].err = "ErrBankrollNameExists"

\* Caller c takes a step of repository method op from statement from.
Took(c, op, from) ==
  calls[c].op = op /\ calls[c].pc = from /\ calls'[c] # calls[c]
Owns(userID, id) == OwnedRow(bankrolls, id, userID) # {}

\* C22: FindByID, Update and Reset for a user who does not own the bankroll
\* return ErrBankrollNotFound, what FindByID and ListByUserID return are
\* rows of the user asked for, ListByUserID all of them, and every step of
\* a call adds, changes or removes rows of the call's user only.
C22_IsolatedPerUser ==
  /\ [](\A c \in Callers :
          LET k == calls[c]
          IN /\ (Returned(k, {"FindByID", "Update", "Reset"})
                 /\ ~Owns(k.arg.UserID, k.arg.ID)
                 /\ k.detail # "connection") =>
                  (k.err = "ErrBankrollNotFound" /\ k.out = {})
             /\ (Returned(k, {"FindByID", "Update", "Reset"}) /\ k.err = "")
                  => Owns(k.arg.UserID, k.arg.ID)
             /\ \A b \in k.out : b.UserID = k.arg.UserID
             /\ Returned(k, {"FindByID"}) =>
                  \A b \in k.out : b.ID = k.arg.ID)
  /\ [][\A c \in Callers :
          /\ (Took(c, "ListByUserID", "select") /\ calls'[c].err = "") =>
               calls'[c].out = {b \in bankrolls :
                                  b.UserID = calls[c].arg.UserID}
          /\ calls'[c] # calls[c] =>
               \A b \in (bankrolls \ bankrolls') \cup (bankrolls' \ bankrolls) :
                 b.UserID = calls[c].arg.UserID]_vars

C22_Witness ==
  \E c \in Callers :
    /\ Returned(calls[c], {"Reset"}) /\ calls[c].arg.UserID = 2
    /\ calls[c].arg.ID = 1 /\ calls[c].err = "ErrBankrollNotFound"
    /\ \E b \in bankrolls : b.ID = 1 /\ b.UserID = 1 /\ b.InitialBalance = 10

\* The row of a table with an id.
RowWithID(rows, id) == CHOOSE b \in rows : b.ID = id

\* C23: the bankroll CreateBankroll stores has its current balance equal to
\* its initial balance; the step of Update that writes changes name,
\* currency, start date and commission of the one row and nothing else, so
\* that id, user and both balances of every row are as before; and a step
\* that ends an Update, of repository or service, with an error leaves the
\* table as it was.
C23_UpdateKeepsBalances ==
  /\ [](\A c \in Callers :
          (Returned(calls[c], {"Create"}) /\ calls[c].err = "") =>
            /\ calls[c].arg.CurrentBalance = calls[c].arg.InitialBalance
            /\ calls[c].arg.ID > 0)
  /\ [][\A c \in Callers :
          /\ Took(c, "Create", "write") =>
               \A b \in bankrolls' \ bankrolls :
                 b.CurrentBalance = b.InitialBalance
          /\ (calls[c].op = "Update" /\ calls'[c] # calls[c]) =>
               /\ {b.ID : b \in bankrolls'} = {b.ID : b \in bankrolls}
               /\ \A b \in bankrolls :
                    LET a == RowWithID(bankrolls', b.ID)
                    IN /\ a.UserID = b.UserID
                       /\ a.InitialBalance = b.InitialBalance
                       /\ a.CurrentBalance = b.CurrentBalance
                       /\ b.ID # calls[c].arg.ID => a = b
               /\ calls'[c].err # "" => bankrolls' = bankrolls
               /\ (Took(c, "Update", "write") /\ calls'[c].err = "") =>
                    LET a == RowWithID(bankrolls', calls[c].arg.ID)
                    IN /\ a.Name = calls[c].arg.Name
                       /\ a.Currency = calls[c].arg.Currency
                       /\ a.StartDate = calls[c].arg.StartDate
                       /\ a.CommissionPercentage =
                            calls[c].arg.CommissionPercentage
          /\ (calls[c].svc = "UpdateBankroll" /\ calls'[c] # calls[c]
              /\ calls'[c].svcErr # "") => bankrolls' = bankrolls]_vars

C23_Witness ==
  \E c \in Callers :
    /\ Returned(calls[c], {"Update"}) /\ calls[c].err = ""
    /\ calls[c].arg.ID = 1 /\ calls[c].arg.InitialBalance = 25
    /\ \E b \in bankrolls :
         /\ b.ID = 1 /\ b.Name = "b" /\ b.Currency = "USD"
         /\ b.InitialBalance = 10 /\ b.CurrentBalance = 10

\* C24: the step of Reset for the owner sets both balances of the row to 0
\* and leaves its other columns and the other rows as they were; a Reset of
\* a row whose balances are 0 already succeeds and leaves the table as it
\* was; a Reset that finds no row of the user with the id returns
\* ErrBankrollNotFound; ResetBankroll returns the row with both balances 0.
C24_ResetZeroesBalances ==
  /\ [](\A c \in Callers :
          LET k == calls[c]
          IN /\ (Returned(k, {"Reset"}) /\ k.err = "") =>
                  \E b \in bankrolls :
                    /\ b.ID = k.arg.ID /\ b.UserID = k.arg.UserID
                    /\ b.InitialBalance = 0 /\ b.CurrentBalance = 0
             /\ (k.svc = "ResetBankroll" /\ k.stage = 0 /\ k.pc = "ret"
                 /\ k.svcErr = "") =>
                  /\ k.svcOut.ID = k.arg.ID
                  /\ k.svcOut.InitialBalance = 0
                  /\ k.svcOut.CurrentBalance = 0)
  /\ [][\A c \in Callers :
          Took(c, "Reset", "write") =>
            LET k == calls[c]
                row == OwnedRow(bankrolls, k.arg.ID, k.arg.UserID)
            IN /\ (row = {} /\ calls'[c].detail # "connection") =>
                    (calls'[c].err = "ErrBankrollNotFound"
                     /\ bankrolls' = bankrolls)
               /\ calls'[c].err # "" => bankrolls' = bankrolls
               /\ (row # {}) =>
                    (calls'[c].err = "" \/ calls'[c].detail = "connection")
               /\ calls'[c].err = "" =>
                    /\ \A b \in row :
                         bankrolls' = (bankrolls \ {b}) \cup
                           {[b EXCEPT !.InitialBalance = 0,
                                      !.CurrentBalance = 0]}
                    /\ (\A b \in row : b.InitialBalance = 0
                                       /\ b.CurrentBalance = 0) =>
                         bankrolls' = bankrolls]_vars

C24_Witness ==
  /\ \A c \in Callers :
       /\ Returned(calls[c], {"Reset"}) /\ calls[c].err = ""
       /\ calls[c].arg.ID = 1 /\ calls[c].arg.UserID = 1
  /\ \E b \in bankrolls :
       /\ b.ID = 1 /\ b.Name = "a" /\ b.Currency = "BRL" /\ b.StartDate = 1
       /\ b.CommissionPercentage = 5
       /\ b.InitialBalance = 0 /\ b.CurrentBalance = 0

\* ------------------------------------------------------------ registration
InOperation == {"ensure", "login", "storeToken", "storeExpiry", "create",
                "password"}

\* C25: a step of Register from the email lookup either returns, with
\* ErrUserAlreadyExists when a row with the email is stored and
\* ErrDatabaseError when the lookup failed, the identity provider not
\* called, or starts the identity provider's CreateUser, no such row being
\* stored; CreateUser starts nowhere else; a row is added to users only by
\* the call at its insert, after CreateUser returned an id, and carries the
\* email and that id; a returned call has an error and no output or an
\* output and no error, ErrIdentityProviderError exactly when CreateUser
\* failed and ErrDatabaseError only from the lookup or the insert.
C25_LookupThenProviderThenInsert ==
  /\ [](\A c \in Callers :
          LET k == regs[c]
          IN k.pc = "ret" =>
               /\ k.err # "" => k.out = 0
               /\ k.err = "" =>
                    /\ k.userID # <<>> /\ k.idpErr = ""
                    /\ \E u \in users :
                         /\ u.ID = k.out /\ u.Email = k.email
                         /\ u.IdentityID = k.userID
               /\ k.err = "ErrUserAlreadyExists" => k.attempts = 0
               /\ (k.err = "ErrIdentityProviderError") = (k.idpErr # "")
               /\ k.err = "ErrDatabaseError" =>
                    (k.attempts = 0 \/ k.userID # <<>>)
               /\ k.err \in {"", "ErrUserAlreadyExists", "ErrDatabaseError",
                             "ErrIdentityProviderError"})
  /\ [][\A c \in Callers :
          LET k == regs[c]
              n == regs'[c]
          IN /\ (k.pc = "lookup" /\ n # k) =>
                  /\ (\E u \in users : u.Email = k.email) =>
                       /\ n.pc = "ret" /\ n.attempts = 0
                       /\ n.err \in {"ErrUserAlreadyExists",
                                     "ErrDatabaseError"}
                  /\ n.pc # "ret" =>
                       /\ n.pc = "ensure" /\ n.attempts = 1
                       /\ ~ \E u \in users : u.Email = k.email
             /\ (k.attempts = 0 /\ n.attempts > 0) => k.pc = "lookup"
             /\ (n # k /\ users' # users) =>
                  /\ k.pc = "insert" /\ k.userID # <<>> /\ k.idpErr = ""
                  /\ \E u \in users' :
                       /\ users' = users \cup {u} /\ u \notin users
                       /\ u.Email = k.email /\ u.IdentityID = k.userID
             /\ (n.pc = "insert" /\ k.pc # "insert") =>
                  (k.pc = "password" /\ k.userID # <<>>)]_vars

C25_Witness ==
  /\ \E c \in Callers :
       /\ regs[c].pc = "ret" /\ regs[c].err = "" /\ regs[c].email = EmailD
       /\ regs[c].out = 43 /\ regs[c].attempts = 2
  /\ \E c \in Callers :
       /\ regs[c].pc = "ret" /\ regs[c].err = "ErrUserAlreadyExists"
       /\ regs[c].attempts = 0

\* C26: retryWithBackoff ends: a call of CreateUser that is inside it
\* leaves it; the operation is invoked at most 4 times, again only after
\* an invocation failed with an error that is not permanent and the
\* back-off did not stop; once it succeeded or returned a permanent error
\* it is not invoked again.
C26_RetryEnds ==
  /\ [](regs["p"].attempts <= 4)
  /\ [][LET k == regs["p"]
            n == regs'["p"]
        IN /\ (k.attempts > 0 /\ n.attempts # k.attempts /\ n.pc # "lookup")
                => /\ k.pc \in {"create", "password"} /\ n.pc = "ensure"
                   /\ n.attempts = k.attempts + 1
                   /\ k.attempts <= MaxRetries
           /\ (k.pc = "login" /\ n.pc \notin {"login", "storeToken"}) =>
                /\ n.pc = "ret" /\ n.idpErr = "permanent"
                /\ n.attempts = k.attempts
           /\ (k.pc = "password" /\ n.pc = "insert") =>
                n.attempts = k.attempts
           /\ (k.pc \in InOperation /\ n.pc = "ret") =>
                /\ n.err = "ErrIdentityProviderError"
                /\ n.idpErr = "retries" =>
                     (k.attempts = MaxRetries + 1
                      \/ clock - k.began > MaxElapsedTime)]_vars
  /\ (regs["p"].pc \in InOperation) ~> (regs["p"].pc \in {"insert", "ret"})

C26_Witness ==
  /\ regs["p"].pc = "ret" /\ regs["p"].idpErr = "retries"
  /\ regs["p"].attempts = 4 /\ regs["p"].err = "ErrIdentityProviderError"

\* C30 as stated: whenever a call is about to read the adapter's token
\* fields they are those of one admin login; a failed login leaves both as
\* they were; the token is stored only when the clock is past the stored
\* expiry less 30 seconds; and when ensureAdminToken returns nil the clock
\* is not past that margin of the stored expiry.
C30_TokenFieldsOfOneLogin ==
  /\ [](\A c \in Callers :
          regs[c].pc \in {"ensure", "create", "password"} =>
            kc.adminToken = kc.expiresOf)
  /\ [][\A c \in Callers :
          LET k == regs[c]
              n == regs'[c]
          IN /\ (k.pc = "login" /\ n.pc = "ret") => kc' = kc
             /\ (k.pc = "storeToken" /\ n # k) =>
                  RefreshDue(clock, kc.tokenExpires)
             /\ (k.pc \in {"ensure", "storeExpiry"} /\ n.pc = "create") =>
                  ~RefreshDue(clock', kc'.tokenExpires)]_vars

\* ------------------------------------------------ the middleware's two exits
\* C27: a request that has left the middleware has either one error
\* response written, the chain aborted and the next handler not called, or
\* no response written and the next handler called once; before that
\* neither has happened; a response once written is not written again and
\* the handler is not called after it, nor called twice.
C27_ExactlyOneExit ==
  /\ [](pc = "done" =>
          \/ /\ response.status \in {401, 500} /\ response.code # ""
             /\ aborted /\ handlerRuns = 0
          \/ response = NoResponse /\ ~aborted /\ handlerRuns = 1)
  /\ [](pc # "done" =>
          (response = NoResponse /\ ~aborted /\ handlerRuns = 0))
  /\ [][/\ response # NoResponse =>
             (response' = response /\ handlerRuns' = handlerRuns)
        /\ handlerRuns' \in {handlerRuns, 1}
        /\ handlerRuns = 1 => (handlerRuns' = 1 /\ response' = NoResponse)]_vars

C27_Witness ==
  pc = "done" /\ response.status = 401 /\ response.code = "INVALID_TOKEN"
  /\ aborted /\ handlerRuns = 0 /\ verr = "signature"

\* C28 as stated: the handler a request enters after the middleware gets
\* from getUserID the ID of the request's user and answers no 403.
C28_HandlerAcceptsUserID ==
  entry.pc = "entered" =>
    (entry.err = "" /\ entry.id = entry.user /\ entry.status # 403)

====
